---- MODULE Spec2Model ----
(***************************************************************************)
(* Model of the query engine of nrrdbook (src/nrrdbook/nrrdbook.py):       *)
(* Contacts._perform_search and the commands built on it.                  *)
(*                                                                         *)
(* A Python str is a sequence of one-character strings, so that split,     *)
(* strip, lower, re.sub and the `in` operator are computed, not assumed.   *)
(* A value that may be None is a sequence of length 0 (None) or 1.         *)
(***************************************************************************)
EXTENDS Integers, Sequences, FiniteSets, TLC

\* ------------------------------------------------------------------------
\* Bounds of the model
\* ------------------------------------------------------------------------
\* largest number of records in a snapshot
MaxContacts == 2

\* ------------------------------------------------------------------------
\* Python strings
\* ------------------------------------------------------------------------
None == <<>>
Some(v) == <<v>>

\* the ASCII letters
UpperCase ==
  << "A", "B", "C", "D", "E", "F", "G", "H", "I", "J", "K", "L", "M",
     "N", "O", "P", "Q", "R", "S", "T", "U", "V", "W", "X", "Y", "Z" >>

LowerCase ==
  << "a", "b", "c", "d", "e", "f", "g", "h", "i", "j", "k", "l", "m",
     "n", "o", "p", "q", "r", "s", "t", "u", "v", "w", "x", "y", "z" >>

\* str.lower() on one character
LowerChar(c) ==
  IF \E i \in DOMAIN UpperCase : UpperCase[i] = c
  THEN LowerCase[CHOOSE i \in DOMAIN UpperCase : UpperCase[i] = c]
  ELSE c

\* str.lower()
Lower(s) == [i \in DOMAIN s |-> LowerChar(s[i])]

\* the characters matched by the regular expression \d
Digits == {"0", "1", "2", "3", "4", "5", "6", "7", "8", "9"}

\* re.sub(r'\D', '', s)
StripNonDigits(s) == SelectSeq(s, LAMBDA c : c \in Digits)

\* the `in` operator on two strings: sub in s
Contains(sub, s) ==
  \E i \in 0..(Len(s) - Len(sub)) : SubSeq(s, i + 1, i + Len(sub)) = sub

\* str.strip(): leading and trailing blanks removed
RECURSIVE LStrip(_)
LStrip(s) == IF s # <<>> /\ Head(s) = " " THEN LStrip(Tail(s)) ELSE s

RECURSIVE RStrip(_)
RStrip(s) ==
  IF s # <<>> /\ s[Len(s)] = " " THEN RStrip(SubSeq(s, 1, Len(s) - 1)) ELSE s

Strip(s) == RStrip(LStrip(s))

\* str.split(sep) for a one-character separator: "".split(",") is [""]
RECURSIVE SplitFrom(_, _, _)
SplitFrom(s, sep, cur) ==
  IF s = <<>> THEN <<cur>>
  ELSE IF Head(s) = sep THEN <<cur>> \o SplitFrom(Tail(s), sep, <<>>)
  ELSE SplitFrom(Tail(s), sep, Append(cur, Head(s)))

Split(s, sep) == SplitFrom(s, sep, <<>>)

\* the elements of a list
Range(q) == {q[i] : i \in DOMAIN q}

\* ------------------------------------------------------------------------
\* Criteria parsing (the first half of Contacts._perform_search)
\* ------------------------------------------------------------------------
K_uid == <<"u", "i", "d">>
K_email == <<"e", "m", "a", "i", "l">>
K_address == <<"a", "d", "d", "r", "e", "s", "s">>
K_phone == <<"p", "h", "o", "n", "e">>
K_alias == <<"a", "l", "i", "a", "s">>
K_name == <<"n", "a", "m", "e">>
K_tags == <<"t", "a", "g", "s">>
K_birthday == <<"b", "i", "r", "t", "h", "d", "a", "y">>
K_anniversary == <<"a", "n", "n", "i", "v", "e", "r", "s", "a", "r", "y">>

\* the literal search term 'any'
S_any == <<"a", "n", "y">>

valid_criteria ==
  << K_uid \o <<"=">>, K_email \o <<"=">>, K_address \o <<"=">>,
     K_phone \o <<"=">>, K_alias \o <<"=">>, K_name \o <<"=">>,
     K_tags \o <<"=">>, K_birthday \o <<"=">>, K_anniversary \o <<"=">> >>

\* HasCriteria that looks for the key names without their '=' sign
HasCriteriaKeyOnly(clause) ==
  \E i \in DOMAIN valid_criteria :
    Contains(SubSeq(valid_criteria[i], 1, Len(valid_criteria[i]) - 1), clause)

\* any(x in clause for x in valid_criteria)
HasCriteria(clause) ==
  \E i \in DOMAIN valid_criteria : Contains(valid_criteria[i], clause)

\* "%" in term
HasPercent(term) == Contains(<<"%">>, term)

\* searchterm: str(term[0]).lower() of term.split("%"), or the whole term
SearchTerm(term) ==
  IF HasPercent(term) THEN Lower(Split(term, "%")[1]) ELSE Lower(term)

\* ExcludeTerm with the split limited to the first '%', as
\* term.split("%", 1) would do
ExcludeTermSplitOnce(term) ==
  IF HasPercent(term)
  THEN LET first == CHOOSE i \in DOMAIN term :
                      term[i] = "%" /\ \A j \in 1..(i - 1) : term[j] # "%"
       IN  Some(Lower(SubSeq(term, first + 1, Len(term))))
  ELSE None

\* ExcludeTerm with the exclude part dropped when the search part is empty
ExcludeTermNeedsSearch(term) ==
  IF HasPercent(term) /\ Split(term, "%")[1] # <<>>
  THEN Some(Lower(Split(term, "%")[2]))
  ELSE None

\* excludeterm: str(term[1]).lower() of term.split("%"), or None
ExcludeTerm(term) ==
  IF HasPercent(term) THEN Some(Lower(Split(term, "%")[2])) ELSE None

\* truth value of a str-or-None: None and "" are false
Truthy(opt) == opt # None /\ opt[1] # <<>>

\* dict.get(key) on a dict built from a list of pairs: the last pair with
\* the key gives the value, None when there is no such pair
Get(d, key) ==
  LET idx == {i \in DOMAIN d : d[i][1] = key}
  IN  IF idx = {} THEN None
      ELSE Some(d[CHOOSE i \in idx : \A j \in idx : j <= i][2])

\* item.split('=') of one comma-separated item
ItemParts(item) == Split(item, "=")

\* ParseClause with item.split('=', 1): text after a second '=' stays in
\* the value instead of raising ValueError
ParseClauseSplitOnce(clause) ==
  LET items == Split(clause, ",")
      rest(parts) == IF Len(parts) = 2 THEN parts[2]
                     ELSE parts[2] \o <<"=">> \o parts[3]
  IN  IF \A i \in DOMAIN items : Len(ItemParts(items[i])) \in {2, 3}
      THEN [kind |-> "dict",
            dict |-> [i \in DOMAIN items |->
                        << Strip(ItemParts(items[i])[1]),
                           Strip(rest(ItemParts(items[i]))) >>]]
      ELSE [kind |-> "error", dict |-> <<>>]

\* dict((k.strip(), v.strip()) for k, v in (item.split('=') for item in
\* clause.split(','))): the unpacking into k, v raises ValueError unless
\* the item splits into exactly two parts
ParseClause(clause) ==
  LET items == Split(clause, ",")
  IN  IF \A i \in DOMAIN items : Len(ItemParts(items[i])) = 2
      THEN [kind |-> "dict",
            dict |-> [i \in DOMAIN items |->
                        << Strip(ItemParts(items[i])[1]),
                           Strip(ItemParts(items[i])[2]) >>]]
      ELSE [kind |-> "error", dict |-> <<>>]

\* ParseSearch without the special case for 'any'
ParseSearchNoAny(searchterm) ==
  IF searchterm # <<>>
  THEN IF ~HasCriteria(searchterm)
       THEN [kind |-> "dict", dict |-> << <<K_name, Strip(searchterm)>> >>]
       ELSE ParseClause(searchterm)
  ELSE [kind |-> "none", dict |-> <<>>]

\* the search criteria of a searchterm: None, a dict, or a ValueError
ParseSearch(searchterm) ==
  IF searchterm # <<>>
  THEN IF searchterm = S_any THEN [kind |-> "none", dict |-> <<>>]
       ELSE IF ~HasCriteria(searchterm)
       THEN [kind |-> "dict", dict |-> << <<K_name, Strip(searchterm)>> >>]
       ELSE ParseClause(searchterm)
  ELSE [kind |-> "none", dict |-> <<>>]

\* the exclude criteria of an excludeterm: None, a dict, or a ValueError
ParseExclude(excludeterm) ==
  IF Truthy(excludeterm)
  THEN IF ~HasCriteria(excludeterm[1])
       THEN [kind |-> "dict", dict |-> << <<K_name, Strip(excludeterm[1])>> >>]
       ELSE ParseClause(excludeterm[1])
  ELSE [kind |-> "none", dict |-> <<>>]

\* ------------------------------------------------------------------------
\* Contact records
\* ------------------------------------------------------------------------
\* one decimal digit as a character
DigitChar(n) ==
  CASE n = 0 -> "0" [] n = 1 -> "1" [] n = 2 -> "2" [] n = 3 -> "3"
    [] n = 4 -> "4" [] n = 5 -> "5" [] n = 6 -> "6" [] n = 7 -> "7"
    [] n = 8 -> "8" [] OTHER -> "9"

\* strftime %m and %d: two digits, zero padded
Pad2(n) == << DigitChar((n \div 10) % 10), DigitChar(n % 10) >>

\* strftime %Y of a four-digit year
Pad4(n) ==
  << DigitChar((n \div 1000) % 10), DigitChar((n \div 100) % 10),
     DigitChar((n \div 10) % 10), DigitChar(n % 10) >>

\* _compare_dates that renders a two-character value as the day (%d)
\* instead of the month
_compare_datesDay(dtstr, dtobj) ==
  LET n == Len(dtstr)
      cpstr ==
        CASE n = 10 -> Pad4(dtobj.y) \o <<"-">> \o Pad2(dtobj.m)
                         \o <<"-">> \o Pad2(dtobj.d)
          [] n = 7 -> Pad4(dtobj.y) \o <<"-">> \o Pad2(dtobj.m)
          [] n = 5 -> Pad2(dtobj.m) \o <<"-">> \o Pad2(dtobj.d)
          [] n = 4 -> Pad4(dtobj.y)
          [] n = 2 -> Pad2(dtobj.d)
          [] OTHER -> <<>>
  IN  dtstr = cpstr

\* _compare_dates(dtstr, dtobj): the format is chosen by len(dtstr)
_compare_dates(dtstr, dtobj) ==
  LET n == Len(dtstr)
      cpstr ==
        CASE n = 10 -> Pad4(dtobj.y) \o <<"-">> \o Pad2(dtobj.m)
                         \o <<"-">> \o Pad2(dtobj.d)
          [] n = 7 -> Pad4(dtobj.y) \o <<"-">> \o Pad2(dtobj.m)
          [] n = 5 -> Pad2(dtobj.m) \o <<"-">> \o Pad2(dtobj.d)
          [] n = 4 -> Pad4(dtobj.y)
          [] n = 2 -> Pad2(dtobj.m)
          [] OTHER -> <<>>
  IN  dtstr = cpstr

\* _datetime_or_none(timestr): a stored value that is no timestamp and
\* does not parse as one gives None
_datetime_or_none(raw) ==
  IF raw.parsable THEN Some([y |-> raw.y, m |-> raw.m, d |-> raw.d])
  ELSE None

\* _lowered_or_none that hands the string back in the case it has
_lowered_or_noneAsIs(inputstr) ==
  IF Truthy(inputstr) THEN inputstr ELSE None

\* _lowered_or_none(inputstr)
_lowered_or_none(inputstr) ==
  IF Truthy(inputstr) THEN Some(Lower(inputstr[1])) ELSE None

\* _parse_contact(uid): the fields of a stored record that the search reads
_parse_contact(rec) ==
  [ alias |-> IF Truthy(rec.alias) THEN Some(Lower(rec.alias[1]))
              ELSE rec.alias,
    display |-> rec.display,
    tags |-> rec.tags,
    birthday |-> IF rec.birthday # None
                 THEN _datetime_or_none(rec.birthday[1]) ELSE None,
    anniversary |-> IF rec.anniversary # None
                    THEN _datetime_or_none(rec.anniversary[1]) ELSE None,
    emails |-> rec.emails,
    phones |-> rec.phones,
    addresses |-> rec.addresses ]

\* JoinElements that leaves the ';' of an empty element in place
RECURSIVE JoinElementsPlaceholder(_)
JoinElementsPlaceholder(elements) ==
  IF elements = <<>> THEN <<>>
  ELSE (IF Truthy(Head(elements)) THEN Head(elements)[1] ELSE <<>>)
         \o <<";">> \o JoinElementsPlaceholder(Tail(elements))

\* the elements address1, address2, city, state, zipcode, country of an
\* address entry, each followed by ';' when it is not empty
RECURSIVE JoinElements(_)
JoinElements(elements) ==
  IF elements = <<>> THEN <<>>
  ELSE (IF Truthy(Head(elements)) THEN Head(elements)[1] \o <<";">>
        ELSE <<>>) \o JoinElements(Tail(elements))

\* this_address of one address entry
ThisAddress(entry) ==
  JoinElements(<< entry.address1, entry.address2, entry.city,
                  entry.state, entry.zipcode, entry.country >>)

\* some entry of contact['emails'] has an email that contains value
EmailHit(value, contact) ==
  \E i \in DOMAIN contact.emails[1] :
    LET this_email == _lowered_or_none(contact.emails[1][i].email)
    IN  Truthy(this_email) /\ Contains(value, this_email[1])

\* some entry of contact['phones'] has a number whose digits contain value
PhoneHit(value, contact) ==
  \E i \in DOMAIN contact.phones[1] :
    LET this_phone == contact.phones[1][i].number
    IN  Truthy(this_phone) /\ Contains(value, StripNonDigits(this_phone[1]))

\* some entry of contact['addresses'] contains value
AddressHit(value, contact) ==
  \E i \in DOMAIN contact.addresses[1] :
    Contains(value, Lower(ThisAddress(contact.addresses[1][i])))

\* TagHit that takes a tag of the list that is part of a tag of the contact
TagHitSubstring(tags, contact) ==
  \E i \in DOMAIN tags :
    \E j \in DOMAIN contact.tags[1] : Contains(tags[i], contact.tags[1][j])

\* some tag of the list is in contact['tags']
TagHit(tags, contact) ==
  \E i \in DOMAIN tags : tags[i] \in Range(contact.tags[1])

\* ------------------------------------------------------------------------
\* The two passes of Contacts._perform_search
\* ------------------------------------------------------------------------
\* TagList that splits an empty value too
TagListOfEmpty(value) ==
  IF value # None THEN Some(Split(value[1], "+")) ELSE value

\* x_tags / s_tags: the value split on '+' when it is not empty
TagList(value) ==
  IF Truthy(value) THEN Some(Split(value[1], "+")) ELSE value

\* x_phone: the digits of the exclude clause's phone value, None when the
\* value has no digit
XPhone(value) ==
  IF Truthy(value)
  THEN IF StripNonDigits(value[1]) = <<>> THEN None
       ELSE Some(StripNonDigits(value[1]))
  ELSE value

\* the variables x_uid .. x_anniversary taken from the exclude dict
ExcludeVars(exclude) ==
  [ uid |-> Get(exclude, K_uid),
    alias |-> Get(exclude, K_alias),
    name |-> Get(exclude, K_name),
    email |-> Get(exclude, K_email),
    address |-> Get(exclude, K_address),
    tags |-> TagList(Get(exclude, K_tags)),
    phone |-> XPhone(Get(exclude, K_phone)),
    birthday |-> Get(exclude, K_birthday),
    anniversary |-> Get(exclude, K_anniversary) ]

\* ExcludeRemove with the tests chained by elif: only the first criterion
\* present in the clause is tested
ExcludeRemoveElif(uid, contact, x) ==
  IF Truthy(x.uid) THEN x.uid[1] = uid
  ELSE IF Truthy(x.alias)
  THEN Truthy(contact.alias) /\ x.alias[1] = contact.alias[1]
  ELSE IF Truthy(x.name)
  THEN Truthy(contact.display)
         /\ Contains(x.name[1], Lower(contact.display[1]))
  ELSE IF Truthy(x.tags)
  THEN Truthy(contact.tags) /\ TagHit(x.tags[1], contact)
  ELSE IF Truthy(x.birthday)
  THEN contact.birthday # None
         /\ _compare_dates(x.birthday[1], contact.birthday[1])
  ELSE IF Truthy(x.anniversary)
  THEN contact.anniversary # None
         /\ _compare_dates(x.anniversary[1], contact.anniversary[1])
  ELSE IF Truthy(x.email)
  THEN Truthy(contact.emails) /\ EmailHit(x.email[1], contact)
  ELSE IF Truthy(x.phone)
  THEN Truthy(contact.phones) /\ PhoneHit(x.phone[1], contact)
  ELSE Truthy(x.address) /\ Truthy(contact.addresses)
         /\ AddressHit(x.address[1], contact)

\* the value of `remove` for one contact at the end of the exclude loop:
\* any matching criterion sets it
ExcludeRemove(uid, contact, x) ==
  \/ Truthy(x.uid) /\ x.uid[1] = uid
  \/ Truthy(x.alias) /\ Truthy(contact.alias) /\ x.alias[1] = contact.alias[1]
  \/ Truthy(x.name) /\ Truthy(contact.display)
       /\ Contains(x.name[1], Lower(contact.display[1]))
  \/ Truthy(x.tags) /\ Truthy(contact.tags) /\ TagHit(x.tags[1], contact)
  \/ Truthy(x.birthday) /\ contact.birthday # None
       /\ _compare_dates(x.birthday[1], contact.birthday[1])
  \/ Truthy(x.anniversary) /\ contact.anniversary # None
       /\ _compare_dates(x.anniversary[1], contact.anniversary[1])
  \/ Truthy(x.email) /\ Truthy(contact.emails) /\ EmailHit(x.email[1], contact)
  \/ Truthy(x.phone) /\ Truthy(contact.phones) /\ PhoneHit(x.phone[1], contact)
  \/ Truthy(x.address) /\ Truthy(contact.addresses)
       /\ AddressHit(x.address[1], contact)

\* s_phone = re.sub(r'\D', '', x_phone), reached when search.get('phone')
\* is not empty. x_phone is a local that only the exclude branch assigns:
\* without an exclude dict the read raises UnboundLocalError, with x_phone
\* None re.sub raises TypeError, otherwise the digits are those of x_phone.
SPhone(value, exclude) ==
  IF Truthy(value)
  THEN IF exclude.kind # "dict"
       THEN [err |-> "UnboundLocalError", v |-> None]
       ELSE LET x_phone == XPhone(Get(exclude.dict, K_phone))
            IN  IF x_phone = None THEN [err |-> "TypeError", v |-> None]
                ELSE IF StripNonDigits(x_phone[1]) = <<>>
                THEN [err |-> "", v |-> None]
                ELSE [err |-> "", v |-> Some(StripNonDigits(x_phone[1]))]
  ELSE [err |-> "", v |-> value]

\* the variables s_uid .. s_anniversary taken from the search dict
SearchVars(search, exclude) ==
  [ uid |-> Get(search, K_uid),
    alias |-> Get(search, K_alias),
    name |-> Get(search, K_name),
    email |-> Get(search, K_email),
    address |-> Get(search, K_address),
    tags |-> TagList(Get(search, K_tags)),
    phone |-> SPhone(Get(search, K_phone), exclude).v,
    birthday |-> Get(search, K_birthday),
    anniversary |-> Get(search, K_anniversary) ]

\* SearchRemove with the tests chained by elif: only the first criterion
\* present in the clause is tested
SearchRemoveElif(uid, contact, s) ==
  IF Truthy(s.uid) THEN ~(s.uid[1] = uid)
  ELSE IF Truthy(s.alias)
  THEN Truthy(contact.alias) => ~(s.alias[1] = contact.alias[1])
  ELSE IF Truthy(s.name)
  THEN Truthy(contact.display)
         => ~Contains(s.name[1], Lower(contact.display[1]))
  ELSE IF Truthy(s.tags)
  THEN Truthy(contact.tags) => ~TagHit(s.tags[1], contact)
  ELSE IF Truthy(s.birthday)
  THEN contact.birthday # None
         => ~_compare_dates(s.birthday[1], contact.birthday[1])
  ELSE IF Truthy(s.anniversary)
  THEN contact.anniversary # None
         => ~_compare_dates(s.anniversary[1], contact.anniversary[1])
  ELSE IF Truthy(s.email)
  THEN Truthy(contact.emails) => ~EmailHit(s.email[1], contact)
  ELSE IF Truthy(s.phone)
  THEN Truthy(contact.phones) => ~PhoneHit(s.phone[1], contact)
  ELSE Truthy(s.address)
         /\ (Truthy(contact.addresses) => ~AddressHit(s.address[1], contact))

\* the value of `remove` for one contact at the end of the search loop:
\* any criterion that does not match sets it
SearchRemove(uid, contact, s) ==
  \/ Truthy(s.uid) /\ ~(s.uid[1] = uid)
  \/ Truthy(s.alias)
       /\ (Truthy(contact.alias) => ~(s.alias[1] = contact.alias[1]))
  \/ Truthy(s.name)
       /\ (Truthy(contact.display)
             => ~Contains(s.name[1], Lower(contact.display[1])))
  \/ Truthy(s.tags) /\ (Truthy(contact.tags) => ~TagHit(s.tags[1], contact))
  \/ Truthy(s.birthday)
       /\ (contact.birthday # None
             => ~_compare_dates(s.birthday[1], contact.birthday[1]))
  \/ Truthy(s.anniversary)
       /\ (contact.anniversary # None
             => ~_compare_dates(s.anniversary[1], contact.anniversary[1]))
  \/ Truthy(s.email) /\ (Truthy(contact.emails) => ~EmailHit(s.email[1], contact))
  \/ Truthy(s.phone) /\ (Truthy(contact.phones) => ~PhoneHit(s.phone[1], contact))
  \/ Truthy(s.address)
       /\ (Truthy(contact.addresses) => ~AddressHit(s.address[1], contact))

\* AfterExclude that also removes a record when the uid or alias value is
\* only a part of its uid or alias
AfterExcludeSubstring(snapshot, exclude) ==
  LET x == ExcludeVars(exclude.dict)
      part(rec) ==
        \/ Truthy(x.uid) /\ Contains(x.uid[1], rec.uid)
        \/ Truthy(x.alias) /\ Truthy(_parse_contact(rec).alias)
             /\ Contains(x.alias[1], _parse_contact(rec).alias[1])
  IN  IF exclude.kind = "dict"
      THEN SelectSeq(snapshot,
             LAMBDA rec : ~(ExcludeRemove(rec.uid, _parse_contact(rec), x)
                              \/ part(rec)))
      ELSE snapshot

\* the uids left after the exclude pass
AfterExclude(snapshot, exclude) ==
  LET x == ExcludeVars(exclude.dict)
  IN  IF exclude.kind = "dict"
      THEN SelectSeq(snapshot,
             LAMBDA rec : ~ExcludeRemove(rec.uid, _parse_contact(rec), x))
      ELSE snapshot

\* AfterSearch that returns the uids left in the reverse order
AfterSearchReversed(candidates, search, exclude) ==
  LET s == SearchVars(search.dict, exclude)
      kept == IF search.kind = "dict"
              THEN SelectSeq(candidates,
                     LAMBDA rec :
                       ~SearchRemove(rec.uid, _parse_contact(rec), s))
              ELSE candidates
  IN  [i \in DOMAIN kept |-> kept[Len(kept) + 1 - i]]

\* the uids left after the search pass
AfterSearch(candidates, search, exclude) ==
  LET s == SearchVars(search.dict, exclude)
  IN  IF search.kind = "dict"
      THEN SelectSeq(candidates,
             LAMBDA rec : ~SearchRemove(rec.uid, _parse_contact(rec), s))
      ELSE candidates

\* what a call of _perform_search comes to
Returned(ids) == [kind |-> "list", ids |-> ids, err |-> ""]
ReturnedNone(msg) == [kind |-> "none", ids |-> <<>>, err |-> msg]
Exited(msg) == [kind |-> "exit", ids |-> <<>>, err |-> msg]
Raised(exc) == [kind |-> "raise", ids |-> <<>>, err |-> exc]

\* the ValueError handlers: _error_exit without the shell, otherwise
\* _error_pass and a bare return
InvalidExpression(interactive_, msg) ==
  IF ~interactive_ THEN Exited(msg) ELSE ReturnedNone(msg)

\* _perform_search(term) on a snapshot
_perform_search(snapshot, interactive_, term) ==
  LET search == ParseSearch(SearchTerm(term))
      exclude == ParseExclude(ExcludeTerm(term))
      s_phone == SPhone(Get(search.dict, K_phone), exclude)
      kept == AfterSearch(AfterExclude(snapshot, exclude), search, exclude)
  IN  IF search.kind = "error"
      THEN InvalidExpression(interactive_, "invalid search expression")
      ELSE IF exclude.kind = "error"
      THEN InvalidExpression(interactive_, "invalid exclude expression")
      ELSE IF search.kind = "dict" /\ s_phone.err # ""
      THEN Raised(s_phone.err)
      ELSE Returned([i \in DOMAIN kept |-> kept[i].uid])

\* ------------------------------------------------------------------------
\* The records and the terms the model runs on
\* ------------------------------------------------------------------------
\* a record with every kind of entry and no tag
Contact1 ==
  [ uid |-> <<"u", "1">>,
    alias |-> Some(<<"a", "n", "n", "1">>),
    display |-> Some(<<"A", "n", "n", " ", "L", "e", "e">>),
    tags |-> None,
    birthday |-> Some([parsable |-> TRUE, y |-> 2021, m |-> 5, d |-> 3]),
    anniversary |-> None,
    emails |-> Some(<< [email |-> Some(<<"A", "n", "n", "@", "x">>), primary |-> FALSE], [email |-> Some(<<"a", "l", "@", "b">>), primary |-> TRUE] >>),
    phones |-> Some(<< [number |-> Some(<<"5", "5", "5", "-", "1">>)] >>),
    addresses |-> Some(<< [address1 |-> Some(<<"1", " ", "E", "l", "m">>), address2 |-> None, city |-> Some(<<"B", "o">>), state |-> None, zipcode |-> None, country |-> None] >>) ]

\* an archived record without emails, addresses or birthday
Contact2 ==
  [ uid |-> <<"u", "2">>,
    alias |-> Some(<<"a", "n", "n", "2">>),
    display |-> Some(<<"A", "n", "n", "a", " ", "P", "a", "g", "e">>),
    tags |-> Some(<< <<"a", "r", "c", "h", "i", "v", "e">> >>),
    birthday |-> None,
    anniversary |-> Some([parsable |-> TRUE, y |-> 2020, m |-> 12, d |-> 3]),
    emails |-> None,
    phones |-> Some(<< [number |-> Some(<<"(", "1", "2", ")", "5">>)], [number |-> Some(<<"7">>)] >>),
    addresses |-> None ]

\* a record with a mixed-case alias, an unparsable birthday and entries
\* that lack their value
Contact3 ==
  [ uid |-> <<"u", "3">>,
    alias |-> Some(<<"B", "o", "b">>),
    display |-> Some(<<"B", "o", "b">>),
    tags |-> Some(<< <<"w", "o", "r", "k">>, <<"f", "r", "i", "e", "n", "d">> >>),
    birthday |-> Some([parsable |-> FALSE, y |-> 0, m |-> 0, d |-> 0]),
    anniversary |-> None,
    emails |-> Some(<< [email |-> None, primary |-> FALSE], [email |-> Some(<<"b", "o", "b", "@", "x">>), primary |-> FALSE] >>),
    phones |-> Some(<< [number |-> None] >>),
    addresses |-> Some(<< [address1 |-> None, address2 |-> Some(<<"E", "l", "m", " ", "2">>), city |-> None, state |-> None, zipcode |-> None, country |-> Some(<<"U", "X">>)],
                       [address1 |-> None, address2 |-> None, city |-> Some(<<"B", "o">>), state |-> None, zipcode |-> Some(<<"1", "2">>), country |-> None] >>) ]

\* a record with an upper-case uid, no display name and one email address
Contact4 ==
  [ uid |-> <<"U", "4">>,
    alias |-> Some(<<"x">>),
    display |-> None,
    tags |-> Some(<<>>),
    birthday |-> None,
    anniversary |-> None,
    emails |-> Some(<< [email |-> Some(<<"Z", "o", "@", "x">>), primary |-> FALSE] >>),
    phones |-> None,
    addresses |-> None ]

ContactPool == {Contact1, Contact2, Contact3, Contact4}

\* the lists of pairwise different records of a given length
RECURSIVE ListsOf(_)
ListsOf(n) ==
  IF n = 0 THEN {<<>>}
  ELSE {Append(q, c) : q \in ListsOf(n - 1), c \in ContactPool}

\* self.contacts after a load: the uids are the keys of a dict, so no two
\* records share one
Snapshots ==
  {q \in UNION {ListsOf(n) : n \in 0..MaxContacts} :
     \A i, j \in DOMAIN q : i # j => q[i].uid # q[j].uid}

\* key=value
Crit(key, value) == key \o <<"=">> \o value

\* one criterion for each recognized key
PairCriteria ==
  { Crit(K_uid, <<"u", "1">>),
    Crit(K_alias, <<"a", "n", "n", "1">>),
    Crit(K_name, <<"a", "n", "n">>),
    Crit(K_tags, <<"a", "r", "c", "h", "i", "v", "e", "+", "w", "o", "r", "k">>),
    Crit(K_email, <<"@", "x">>),
    Crit(K_phone, <<"5">>),
    Crit(K_address, <<"e", "l", "m">>),
    Crit(K_birthday, <<"2", "0", "2", "1">>),
    Crit(K_anniversary, <<"1", "2">>) }

\* the text before the first '=' of a criterion
KeyOf(crit) == Split(crit, "=")[1]

\* clauses of two criteria with different keys
PairClauses ==
  {p[1] \o <<",">> \o p[2] :
     p \in {q \in PairCriteria \X PairCriteria : KeyOf(q[1]) # KeyOf(q[2])}}

\* clauses of one criterion, bare words and the empty clause
SingleClauses ==
  { <<"n", "a", "m", "e", "=", "b", "o", "b">>,
    <<"t", "a", "g", "s", "=", "a", "r", "c", "h", "i", "v", "e">>,
    <<"t", "a", "g", "s", "=", "f", "a", "m", "i", "l", "y", "+", "o", "t", "h", "e", "r">>,
    <<"p", "h", "o", "n", "e", "=", "5", "5", "5">>,
    <<"p", "h", "o", "n", "e", "=", "a", "b", "c">>,
    <<"p", "h", "o", "n", "e", "=">>,
    <<"u", "i", "d", "=", "U", "4">>,
    <<"u", "i", "d", "=", "z", "z">>,
    <<"u", "i", "d", "=", "u">>,
    <<"a", "l", "i", "a", "s", "=", "b", "o", "b">>,
    <<"a", "l", "i", "a", "s", "=", "a", "n", "n">>,
    <<"e", "m", "a", "i", "l", "=", "A", "N", "N">>,
    <<"b", "i", "r", "t", "h", "d", "a", "y", "=", "0", "5", "-", "0", "3">>,
    <<"b", "i", "r", "t", "h", "d", "a", "y", "=", "2", "0", "2", "1", "-", "5", "-", "3">>,
    <<"n", "a", "m", "e", "=">>,
    <<"a", "n", "n">>,
    <<"t", "a", "g", "s">>,
    <<"a", "n", "y">>,
    <<"A", "N", "Y">>,
    <<" ", "A", "n", "n", " ">>,
    <<>> }

\* well-formed clauses with blanks around keys and values
SpacedClauses ==
  { <<"t", "a", "g", "s", "=", "a", "r", "c", "h", "i", "v", "e", ",", " ", "n", "a", "m", "e", "=", "a", "n", "n">>,
    <<" ", "n", "a", "m", "e", "=", "a", "n", "n", " ">>,
    <<"t", "a", "g", "s", "=", " ", "a", "r", "c", "h", "i", "v", "e", " ", ",", "n", "a", "m", "e", "=", "b", "o", "b">> }

\* clauses with an item that does not have exactly one '='
MalformedClauses ==
  { <<"t", "a", "g", "s", "=", "a", "r", "c", "h", "i", "v", "e", ",", "b", "r", "o", "k", "e", "n">>,
    <<"n", "a", "m", "e", "=", "a", "=", "b">>,
    <<"n", "a", "m", "e", "=", "a", "n", "n", ",">>,
    <<"t", "a", "g", "s", ",", "n", "a", "m", "e", "=", "a", "n", "n">> }

\* search clauses that are combined with an exclude clause
LeftClauses ==
  { <<"n", "a", "m", "e", "=", "a", "n", "n">>,
    <<"p", "h", "o", "n", "e", "=", "5", "5", "5">>,
    <<"p", "h", "o", "n", "e", "=", "5">>,
    <<"n", "a", "m", "e", "=", "a", "n", "n", ",", "p", "h", "o", "n", "e", "=", "5", "5", "5">>,
    <<"t", "a", "g", "s", "=", "a", "r", "c", "h", "i", "v", "e", "+", "w", "o", "r", "k">>,
    <<"a", "n", "y">>,
    <<"u", "i", "d", "=", "u", "1">>,
    <<"a", "n", "n">>,
    <<"t", "a", "g", "s", "=", "a", "r", "c", "h", "i", "v", "e", ",", "b", "r", "o", "k", "e", "n">> }

\* exclude clauses that are combined with a search clause
RightClauses ==
  { <<"t", "a", "g", "s", "=", "a", "r", "c", "h", "i", "v", "e">>,
    <<"n", "a", "m", "e", "=", "b", "o", "b">>,
    <<"p", "h", "o", "n", "e", "=", "1", "2">>,
    <<"p", "h", "o", "n", "e", "=">>,
    <<"p", "h", "o", "n", "e", "=", "a", "b", "c">>,
    <<"p", "h", "o", "n", "e", "=", "5">>,
    <<"a", "l", "i", "a", "s", "=", "a", "n", "n", "2">>,
    <<"t", "a", "g", "s", "=", "a", "r", "c", "h", "i", "v", "e", ",", "n", "a", "m", "e", "=", "b", "o", "b">>,
    <<"b", "o", "b">>,
    <<"t", "a", "g", "s", "=", "a", "r", "c", "h", "i", "v", "e", ",", "b", "r", "o", "k", "e", "n">>,
    <<>> }

\* terms with more than one '%'
ManyPercentTerms ==
  { <<"n", "a", "m", "e", "=", "a", "n", "n", "%", "t", "a", "g", "s", "=", "a", "r", "c", "h", "i", "v", "e", "%", "n", "a", "m", "e", "=", "l", "e", "e">>,
    <<"n", "a", "m", "e", "=", "a", "n", "n", "%", "t", "a", "g", "s", "=", "a", "r", "c", "h", "i", "v", "e", "%">>,
    <<"%", "n", "a", "m", "e", "=", "b", "o", "b", "%", "t", "a", "g", "s", "=", "a", "r", "c", "h", "i", "v", "e">>,
    <<"n", "a", "m", "e", "=", "a", "n", "n", "%", "%", "t", "a", "g", "s", "=", "a", "r", "c", "h", "i", "v", "e">>,
    <<"%", "%">> }

\* clauses of one criterion that probe one field: dates of every length,
\* several tags, entries of a multi-valued field, address components
DetailClauses ==
  { <<"b", "i", "r", "t", "h", "d", "a", "y", "=", "2", "0", "2", "1", "-", "0", "5", "-", "0", "3">>,
    <<"b", "i", "r", "t", "h", "d", "a", "y", "=", "2", "0", "2", "1", "-", "0", "5">>,
    <<"b", "i", "r", "t", "h", "d", "a", "y", "=", "0", "5">>,
    <<"b", "i", "r", "t", "h", "d", "a", "y", "=", "0", "3">>,
    <<"b", "i", "r", "t", "h", "d", "a", "y", "=", "2", "0", "2">>,
    <<"b", "i", "r", "t", "h", "d", "a", "y", "=", "2", "0", "2", "1", "-", "0", "5", "-", "0", "4">>,
    <<"a", "n", "n", "i", "v", "e", "r", "s", "a", "r", "y", "=", "2", "0", "2", "0", "-", "1", "2", "-", "0", "3">>,
    <<"a", "n", "n", "i", "v", "e", "r", "s", "a", "r", "y", "=", "1", "2", "-", "0", "3">>,
    <<"a", "n", "n", "i", "v", "e", "r", "s", "a", "r", "y", "=", "2", "0", "2", "0">>,
    <<"t", "a", "g", "s", "=", "w", "o", "r", "k", "+", "f", "a", "m", "i", "l", "y">>,
    <<"t", "a", "g", "s", "=", "a", "r", "c", "h">>,
    <<"t", "a", "g", "s", "=", "f", "r", "i", "e", "n", "d">>,
    <<"e", "m", "a", "i", "l", "=", "a", "l">>,
    <<"e", "m", "a", "i", "l", "=", "b", "o", "b">>,
    <<"p", "h", "o", "n", "e", "=", "7">>,
    <<"p", "h", "o", "n", "e", "=", "5", "-", "5">>,
    <<"a", "d", "d", "r", "e", "s", "s", "=", "1", "2">>,
    <<"a", "d", "d", "r", "e", "s", "s", "=", "b", "o", ";">>,
    <<"a", "d", "d", "r", "e", "s", "s", "=", "e", "l", "m", ";", "b", "o">>,
    <<"a", "d", "d", "r", "e", "s", "s", "=", "u", "x", ";">>,
    <<"a", "d", "d", "r", "e", "s", "s", "=", "e", "l", "m", ";", ";", "b", "o">>,
    <<"N", "A", "M", "E", "=", "A", "N", "N">>,
    <<"a", "d", "d", "r", "e", "s", "s", "=", "E", "L", "M">>,
    <<"e", "m", "a", "i", "l", "=", "@", "X">> }

\* clauses of two criteria with the same key
RepeatedClauses ==
  { <<"t", "a", "g", "s", "=", "a", "r", "c", "h", "i", "v", "e", ",", "t", "a", "g", "s", "=", "w", "o", "r", "k">>,
    <<"n", "a", "m", "e", "=", "a", "n", "n", ",", "n", "a", "m", "e", "=", "b", "o", "b">>,
    <<"a", "l", "i", "a", "s", "=", "a", "n", "n", "1", ",", "a", "l", "i", "a", "s", "=", "a", "n", "n", "2">> }

\* the search for the uid of each record, as the record has it
UidClauses == {Crit(K_uid, c.uid) : c \in ContactPool}

\* clauses with criteria that have no value or a key that is not recognized
UnconstrainedClauses ==
  { <<"f", "o", "o", "=", "b", "a", "r">>,
    <<"f", "o", "o", "=">>,
    <<"f", "o", "o", "=", "b", "a", "r", ",", "n", "a", "m", "e", "=", "a", "n", "n">>,
    <<"n", "a", "m", "e", "=", "a", "n", "n", ",", "f", "o", "o", "=", "b", "a", "r">>,
    <<"n", "a", "m", "e", "=", ",", "t", "a", "g", "s", "=">>,
    <<"t", "a", "g", "s", "=", ",", "n", "a", "m", "e", "=", "a", "n", "n">>,
    <<"f", "o", "o", "=", "b", "a", "r", ",", "n", "a", "m", "e", "=">>,
    <<"n", "a", "m", "e", "=", "a", "n", "n", ",", "n", "a", "m", "e", "=">>,
    <<"f", "o", "o", "=", "b", "a", "r", ",", "z", "i", "p", "=", "1">> }

\* the terms given to the mutt command
MuttTerms ==
  { <<"a", "n", "n", "1">>,
    <<"A", "N", "N", "1">>,
    <<"b", "o", "b">>,
    <<"x">>,
    <<"a", "n", "n">>,
    <<"@", "x">>,
    <<"z", "o">>,
    <<"z", "z">>,
    <<"a", "l", "@">>,
    <<"L", "e", "e">> }

\* the terms a command is given
Terms ==
  PairCriteria \cup PairClauses \cup SingleClauses \cup SpacedClauses
    \cup MalformedClauses \cup DetailClauses \cup RepeatedClauses
    \cup UidClauses
    \cup {<<"%">> \o x : x \in SingleClauses \cup DetailClauses}
    \cup {<<"%">> \o x : x \in RepeatedClauses}
    \cup UnconstrainedClauses
    \cup {<<"%">> \o x : x \in UnconstrainedClauses}
    \cup {<<"%">> \o x : x \in PairCriteria \cup PairClauses \cup RightClauses}
    \cup {s \o <<"%">> \o x : s \in LeftClauses, x \in RightClauses}
    \cup ManyPercentTerms

\* ------------------------------------------------------------------------
\* The commands
\* ------------------------------------------------------------------------
VARIABLES
  contacts,     \* Contacts.contacts: the loaded records, in dict order
  interactive,  \* Contacts.interactive: TRUE inside the shell
  pc,           \* "prompt", "dispatch", "done", "exited" or "crashed"
  command,      \* the command being run
  term,         \* the term passed to _perform_search
  results,      \* what _perform_search came to in the running command
  output,       \* what the command printed
  status,       \* the exit status of the process, -1 while it runs
  this_contacts,  \* _perform_search: the candidate uids, while it is followed
                  \* loop by loop
  exclude_list,   \* _perform_search: the uids the exclude loop marked
  not_match,      \* _perform_search: the uids the search loop marked
  pos,            \* the place of the running loop in this_contacts
  built_from,     \* history: self.contacts when this_contacts was built
  stale,          \* history: a record was read from another self.contacts
  refreshes,      \* the number of refreshes the watcher has made
  calls,          \* the number of searches the watched shell has begun
  data_dir,       \* the contact files of the data directory, in scandir order
  contact_files,  \* Contacts.contact_files: pairs of a uid and a file path
  pending,        \* _parse_files between its last two statements: the
                  \* this_contact_files it has still to bind
  uid_found       \* delete: the uid that _uid_from_alias returned

\* the state of the directory, of the file index and of a delete
filevars == <<data_dir, contact_files, pending, uid_found>>

\* the state of a search that is followed loop by loop
loopvars == <<this_contacts, exclude_list, not_match, pos, built_from, stale>>

vars ==
  <<contacts, interactive, pc, command, term, results, output, status,
    this_contacts, exclude_list, not_match, pos, built_from, stale, refreshes,
    calls, data_dir, contact_files, pending, uid_found>>

\* the path of the file a record was loaded from
PathOf(rec) == rec.uid \o <<".", "y", "m", "l">>

\* the directory has one file for each record of self.contacts, the index
\* has the path of each, no refresh is under way and no delete has run
FilesAsLoaded ==
  /\ data_dir = [i \in DOMAIN contacts |->
                   [path |-> PathOf(contacts[i]), contact |-> Some(contacts[i])]]
  /\ contact_files = [i \in DOMAIN contacts |->
                        <<contacts[i].uid, PathOf(contacts[i])>>]
  /\ pending = None
  /\ uid_found = None

\* no search is being followed
NoLoop ==
  /\ this_contacts = <<>>
  /\ exclude_list = <<>>
  /\ not_match = <<>>
  /\ pos = 0
  /\ built_from = <<>>
  /\ stale = FALSE

\* the state of a followed search is dropped
ResetLoop ==
  /\ this_contacts' = <<>>
  /\ exclude_list' = <<>>
  /\ not_match' = <<>>
  /\ pos' = 0
  /\ built_from' = <<>>
  /\ stale' = FALSE

NoResults == [kind |-> "unset", ids |-> <<>>, err |-> ""]
NoOutput == [text |-> "", rows |-> <<>>, count |-> 0]

Init ==
  /\ contacts \in Snapshots
  /\ interactive \in BOOLEAN
  /\ pc = "prompt"
  /\ command = ""
  /\ term = <<>>
  /\ results = NoResults
  /\ output = NoOutput
  /\ status = -1
  /\ NoLoop
  /\ refreshes = 0
  /\ calls = 0
  /\ FilesAsLoaded

\* main() with the arguments of one command, or one line read by the shell:
\* do_search strips the line, do_export takes its first word lower-cased,
\* and the shell has no query command
ReadCommand ==
  /\ pc = "prompt"
  /\ \E c \in {"search", "query", "export", "mutt"},
        t \in Terms \cup MuttTerms :
       /\ IF c = "mutt" THEN t \in MuttTerms ELSE t \in Terms
       /\ interactive => c \notin {"query", "mutt"}
       /\ (interactive /\ c = "export") => ~Contains(<<" ">>, t) /\ t # <<>>
       /\ (interactive /\ c = "search") => Strip(t) # <<>>
       /\ command' = c
       /\ term' = IF ~interactive THEN t
                  ELSE IF c = "search" THEN Strip(t) ELSE Lower(t)
  /\ pc' = "dispatch"
  /\ results' = NoResults
  /\ output' = NoOutput
  /\ UNCHANGED <<contacts, interactive, status, loopvars, refreshes,
     calls, filevars>>

\* the characters of the model in code point order
CodePoints ==
  << " ", "%", "(", ")", "+", ",", "-", "0", "1", "2", "3", "4", "5",
     "6", "7", "8", "9", ";", "=", "@", "A", "B", "C", "D", "E", "F",
     "G", "H", "I", "J", "K", "L", "M", "N", "O", "P", "Q", "R", "S",
     "T", "U", "V", "W", "X", "Y", "Z", "a", "b", "c", "d", "e", "f",
     "g", "h", "i", "j", "k", "l", "m", "n", "o", "p", "q", "r", "s",
     "t", "u", "v", "w", "x", "y", "z", "|" >>

\* ord(c)
Ord(c) == CHOOSE i \in DOMAIN CodePoints : CodePoints[i] = c

\* a <= b on Python strings
RECURSIVE StrLeq(_, _)
StrLeq(a, b) ==
  IF a = <<>> THEN TRUE
  ELSE IF b = <<>> THEN FALSE
  ELSE IF Head(a) = Head(b) THEN StrLeq(Tail(a), Tail(b))
  ELSE Ord(Head(a)) < Ord(Head(b))

\* sorted(items, key=lambda x: x[1]): a stable sort on the name
RECURSIVE InsertByName(_, _)
InsertByName(item, sorted) ==
  IF sorted = <<>> THEN <<item>>
  ELSE IF StrLeq(Head(sorted).name, item.name)
  THEN <<Head(sorted)>> \o InsertByName(item, Tail(sorted))
  ELSE <<item>> \o sorted

RECURSIVE SortByName(_)
SortByName(items) ==
  IF items = <<>> THEN <<>>
  ELSE InsertByName(items[Len(items)],
                    SortByName(SubSeq(items, 1, Len(items) - 1)))

\* self.contacts[uid]
ContactOf(snapshot, uid) ==
  snapshot[CHOOSE i \in DOMAIN snapshot : snapshot[i].uid = uid]

\* the table of search(): one row per result that has a display name,
\* sorted by name, under the title 'Search results (len(results))'
SearchOutput(snapshot, ids) ==
  LET named == SelectSeq(ids,
                 LAMBDA uid : Truthy(ContactOf(snapshot, uid).display))
      fifouids == [i \in DOMAIN named |->
                     [uid |-> named[i],
                      name |-> ContactOf(snapshot, named[i]).display[1]]]
      uids == SortByName(fifouids)
  IN  IF Len(ids) > 0
      THEN [text |-> "Search results",
            rows |-> [i \in DOMAIN uids |-> uids[i].uid],
            count |-> Len(ids)]
      ELSE [text |-> "No results.", rows |-> <<>>, count |-> 0]

\* the text output of query(): one line per result
QueryOutput(ids) ==
  IF Len(ids) > 0
  THEN [text |-> "lines", rows |-> ids, count |-> Len(ids)]
  ELSE [text |-> "No results.", rows |-> <<>>, count |-> 0]

\* the output of export(): one vCard per result
ExportOutput(ids) ==
  IF Len(ids) > 0
  THEN [text |-> "vcards", rows |-> ids, count |-> Len(ids)]
  ELSE [text |-> "No records found.", rows |-> <<>>, count |-> 0]

\* self.contacts with the records of the removed uids taken out, as it
\* would be if this_contacts were the dict itself and not a list of its own
SnapshotAfterRemoveShared(snapshot, removed) ==
  SelectSeq(snapshot, LAMBDA rec : rec.uid \notin Range(removed))

\* self.contacts after this_contacts.remove(uid) for each removed uid:
\* this_contacts is a list filled with the keys (843-845) and the records
\* are only read, so the dict keeps every record as it was
SnapshotAfterRemove(snapshot, removed) ==
  snapshot

\* the uids a call took out of this_contacts before it ended: those the
\* exclude pass marked when the search pass raised, those of both passes
\* when it returned, none when the term did not parse
RemovedBy(snapshot, term_, r) ==
  LET left == IF r.kind = "list" THEN r.ids
              ELSE IF r.kind = "raise"
              THEN LET kept == AfterExclude(snapshot,
                                 ParseExclude(ExcludeTerm(term_)))
                   IN  [i \in DOMAIN kept |-> kept[i].uid]
              ELSE [i \in DOMAIN snapshot |-> snapshot[i].uid]
      uids == [i \in DOMAIN snapshot |-> snapshot[i].uid]
  IN  SelectSeq(uids, LAMBDA uid : uid \notin Range(left))

\* results = self._perform_search(term) followed by len(results) and the
\* output: sys.exit(1) ends the process, an exception that nothing catches
\* ends it with a traceback, and len(None) raises TypeError
RunCommand ==
  LET r == _perform_search(contacts, interactive, term)
  IN  /\ results' = r
      /\ CASE r.kind = "list" ->
                /\ output' = CASE command = "search" ->
                                    SearchOutput(contacts, r.ids)
                                [] command = "query" -> QueryOutput(r.ids)
                                [] OTHER -> ExportOutput(r.ids)
                /\ pc' = IF interactive THEN "done" ELSE "exited"
                /\ status' = IF interactive THEN -1 ELSE 0
           [] r.kind = "exit" ->
                /\ output' = [text |-> "ERROR", rows |-> <<>>, count |-> 0]
                /\ pc' = "exited"
                /\ status' = 1
           [] r.kind = "none" ->
                /\ output' = [text |-> "ERROR", rows |-> <<>>, count |-> 0]
                /\ pc' = "crashed"
                /\ status' = 1
           [] OTHER ->
                /\ output' = NoOutput
                /\ pc' = "crashed"
                /\ status' = 1
      /\ contacts' = SnapshotAfterRemove(contacts,
                                          RemovedBy(contacts, term, r))
      /\ UNCHANGED <<interactive, command, term, loopvars, refreshes, calls,
         filevars>>

\* Contacts.search(term)
search ==
  /\ pc = "dispatch"
  /\ command = "search"
  /\ RunCommand

\* Contacts.query(term)
query ==
  /\ pc = "dispatch"
  /\ command = "query"
  /\ RunCommand

\* Contacts.export(term)
export ==
  /\ pc = "dispatch"
  /\ command = "export"
  /\ RunCommand

\* mutt, alias match with the first email address whatever is flagged
AliasEmailFirst(contact) ==
  IF ~Truthy(contact.emails) THEN None ELSE contact.emails[1][1].email

\* mutt, alias match: the email of the last entry flagged primary, or the
\* email of the first entry when that gives none
AliasEmail(contact) ==
  IF ~Truthy(contact.emails) THEN None
  ELSE LET entries == contact.emails[1]
           flagged == {j \in DOMAIN entries : entries[j].primary}
           this_email ==
             IF flagged = {} THEN None
             ELSE entries[CHOOSE j \in flagged :
                            \A k \in flagged : k <= j].email
       IN  IF Truthy(this_email) THEN this_email ELSE entries[1].email

\* mutt, second loop: the lines of one contact, one for each entry with an
\* email when the contact has a display name and an alias and the term is
\* part of the email or of the display name
MuttEntries(contact, text) ==
  LET entries == IF Truthy(contact.emails) THEN contact.emails[1] ELSE <<>>
      hit(entry) ==
        /\ Truthy(entry.email) /\ Truthy(contact.display)
        /\ Truthy(contact.alias)
        /\ (Contains(text, Lower(entry.email[1]))
              \/ Contains(text, Lower(contact.display[1])))
      kept == SelectSeq(entries, hit)
  IN  [j \in DOMAIN kept |->
         <<kept[j].email[1], contact.display, contact.alias[1]>>]

\* mutt, second loop over self.contacts
RECURSIVE MuttMatches(_, _)
MuttMatches(snapshot, text) ==
  IF snapshot = <<>> THEN <<>>
  ELSE MuttEntries(_parse_contact(Head(snapshot)), text)
         \o MuttMatches(Tail(snapshot), text)

\* what mutt(term) prints: the line of the first contact whose alias is
\* the lower-cased term, without any second loop, or else the matches
MuttOutput(snapshot, term_) ==
  LET text == Lower(term_)
      hits == {i \in DOMAIN snapshot :
                 /\ Truthy(_parse_contact(snapshot[i]).alias)
                 /\ text = _parse_contact(snapshot[i]).alias[1]}
      contact == _parse_contact(
                   snapshot[CHOOSE i \in hits : \A j \in hits : i <= j])
      matches == MuttMatches(snapshot, text)
  IN  IF hits # {}
      THEN IF Truthy(AliasEmail(contact))
           THEN [text |-> "Found alias match:",
                 rows |-> << <<AliasEmail(contact)[1], contact.display,
                               contact.alias[1]>> >>,
                 count |-> 1]
           ELSE NoOutput
      ELSE IF matches # <<>>
      THEN [text |-> "Found matches:", rows |-> matches,
            count |-> Len(matches)]
      ELSE [text |-> "No matches.", rows |-> <<>>, count |-> 0]

\* Contacts.mutt(term): sys.exit(1) after 'No matches.'
mutt ==
  /\ pc = "dispatch"
  /\ command = "mutt"
  /\ output' = MuttOutput(contacts, term)
  /\ pc' = "exited"
  /\ status' = IF MuttOutput(contacts, term).text = "No matches." THEN 1
               ELSE 0
  /\ UNCHANGED <<contacts, interactive, command, term, results, loopvars,
                 refreshes, calls, filevars>>

\* Cmd.cmdloop: the shell goes back to its prompt after a command
Prompt ==
  /\ pc = "done"
  /\ pc' = "prompt"
  /\ command' = ""
  /\ term' = <<>>
  /\ results' = NoResults
  /\ output' = NoOutput
  /\ ResetLoop
  /\ UNCHANGED <<contacts, interactive, status, refreshes, calls, filevars>>

Next == ReadCommand \/ search \/ query \/ export \/ mutt \/ Prompt

Spec == Init /\ [][Next]_vars

\* ------------------------------------------------------------------------
\* The shell's search beside the watcher thread
\* ------------------------------------------------------------------------
\* the most refreshes of the watcher in one behaviour
MaxRefresh == 1

\* the most searches typed at the prompt of one watched shell
MaxCalls == 2

\* the terms typed at the prompt of the watched shell
WatchedTerms ==
  { <<"n", "a", "m", "e", "=", "a", "n", "n">>,
    <<"%", "n", "a", "m", "e", "=", "a", "n", "n">>,
    <<"n", "a", "m", "e", "=", "a", "n", "n", "%", "t", "a", "g", "s", "=", "a", "r", "c", "h", "i", "v", "e">>,
    <<"n", "a", "m", "e", "=", "a", "=", "b">> }

\* a record whose file was edited: another display name under the same uid
Edited(rec) == [rec EXCEPT !.display = Some(<<"Z", "e", "d">>)]

\* the sequence without its i-th element
RemoveAt(q, i) == SubSeq(q, 1, i - 1) \o SubSeq(q, i + 1, Len(q))

\* what _parse_files loads after one event in the data directory: a file
\* deleted, a file modified, or a file created
AfterEvent(snapshot) ==
  {RemoveAt(snapshot, i) : i \in DOMAIN snapshot}
    \cup {[snapshot EXCEPT ![i] = Edited(snapshot[i])] : i \in DOMAIN snapshot}
    \cup {Append(snapshot, rec) :
            rec \in {c \in ContactPool :
                       /\ Len(snapshot) < MaxContacts
                       /\ \A i \in DOMAIN snapshot : snapshot[i].uid # c.uid}}

\* uid in self.contacts
HasUid(snapshot, uid) == \E i \in DOMAIN snapshot : snapshot[i].uid = uid

\* the list without the uids of another list: list.remove(uid) for each
Without(list, removed) ==
  SelectSeq(list, LAMBDA uid : uid \notin Range(removed))

\* a list name bound to [] keeps nothing of the list an earlier call
\* left under that name
NewListKept(previous) ==
  previous

\* this_contacts = [], exclude_list = [], not_match = []: a new list at
\* every call, whatever an earlier call left under the name
NewList(previous) ==
  <<>>

\* the shell with its observer started, at its prompt
InitWatched ==
  /\ contacts \in Snapshots
  /\ interactive = TRUE
  /\ pc = "prompt"
  /\ command = ""
  /\ term = <<>>
  /\ results = NoResults
  /\ output = NoOutput
  /\ status = -1
  /\ NoLoop
  /\ refreshes = 0
  /\ calls = 0
  /\ FilesAsLoaded

\* FSHandler.on_any_event in the observer's thread: do_refresh("silent"),
\* refresh, _parse_files, whose last statements rebind self.contacts
on_any_event ==
  /\ refreshes < MaxRefresh
  /\ pc \in {"prompt", "exclude", "search", "returned"}
  /\ refreshes' = refreshes + 1
  /\ contacts' \in AfterEvent(contacts)
  /\ UNCHANGED <<interactive, pc, command, term, results, output, status,
                 loopvars, calls, filevars>>

\* do_search, Contacts.search and _perform_search up to the loops: the term
\* is parsed and this_contacts is filled with the keys of self.contacts
do_search ==
  /\ pc = "prompt"
  /\ calls < MaxCalls
  /\ calls' = calls + 1
  /\ \E t \in WatchedTerms :
       LET parsed == ParseSearch(SearchTerm(Strip(t)))
           exclude == ParseExclude(ExcludeTerm(Strip(t)))
       IN  /\ command' = "search"
           /\ term' = Strip(t)
           /\ IF parsed.kind = "error" \/ exclude.kind = "error"
              THEN /\ results' = _perform_search(contacts, TRUE, Strip(t))
                   /\ pc' = "crashed"
                   /\ status' = 1
                   /\ UNCHANGED loopvars
              ELSE /\ this_contacts' =
                        NewList(this_contacts)
                          \o [i \in DOMAIN contacts |-> contacts[i].uid]
                   /\ exclude_list' = NewList(exclude_list)
                   /\ built_from' = contacts
                   /\ pos' = 1
                   /\ pc' = "exclude"
                   /\ UNCHANGED <<results, status, not_match, stale>>
  /\ UNCHANGED <<contacts, interactive, output, refreshes, filevars>>

\* the command ends with a KeyError that nothing catches
KeyError ==
  /\ results' = Raised("KeyError")
  /\ pc' = "crashed"
  /\ status' = 1

\* one turn of the exclude loop: contact = self._parse_contact(uid) reads
\* self.contacts[uid] as it is now
ExcludeLoop ==
  LET exclude == ParseExclude(ExcludeTerm(term))
      uid == this_contacts[pos]
  IN  /\ pc = "exclude"
      /\ exclude.kind = "dict"
      /\ pos <= Len(this_contacts)
      /\ IF ~HasUid(contacts, uid)
         THEN KeyError /\ UNCHANGED <<exclude_list, pos, stale>>
         ELSE /\ exclude_list' =
                   IF ExcludeRemove(uid, _parse_contact(ContactOf(contacts, uid)),
                                    ExcludeVars(exclude.dict))
                   THEN Append(exclude_list, uid) ELSE exclude_list
              /\ pos' = pos + 1
              /\ stale' = (stale \/ contacts # built_from)
              /\ UNCHANGED <<results, pc, status>>
      /\ UNCHANGED <<contacts, interactive, command, term, output,
                     this_contacts, not_match, built_from, refreshes, calls,
                        filevars>>

\* the end of the exclude pass: the marked uids are removed, and the search
\* pass computes its variables, s_phone among them
ExcludeDone ==
  LET parsed == ParseSearch(SearchTerm(term))
      exclude == ParseExclude(ExcludeTerm(term))
  IN  /\ pc = "exclude"
      /\ exclude.kind # "dict" \/ pos > Len(this_contacts)
      /\ this_contacts' = Without(this_contacts, exclude_list)
      /\ pos' = 1
      /\ IF parsed.kind = "dict"
            /\ SPhone(Get(parsed.dict, K_phone), exclude).err # ""
         THEN /\ results' = Raised(SPhone(Get(parsed.dict, K_phone), exclude).err)
              /\ pc' = "crashed"
              /\ status' = 1
         ELSE /\ pc' = "search"
              /\ UNCHANGED <<results, status>>
      /\ not_match' = NewList(not_match)
      /\ contacts' = SnapshotAfterRemove(contacts, exclude_list)
      /\ UNCHANGED <<interactive, command, term, output, exclude_list,
                     built_from, stale, refreshes, calls, filevars>>

\* one turn of the search loop, which reads self.contacts[uid] as it is now
SearchLoop ==
  LET parsed == ParseSearch(SearchTerm(term))
      exclude == ParseExclude(ExcludeTerm(term))
      uid == this_contacts[pos]
  IN  /\ pc = "search"
      /\ parsed.kind = "dict"
      /\ pos <= Len(this_contacts)
      /\ IF ~HasUid(contacts, uid)
         THEN KeyError /\ UNCHANGED <<not_match, pos, stale>>
         ELSE /\ not_match' =
                   IF SearchRemove(uid, _parse_contact(ContactOf(contacts, uid)),
                                   SearchVars(parsed.dict, exclude))
                   THEN Append(not_match, uid) ELSE not_match
              /\ pos' = pos + 1
              /\ stale' = (stale \/ contacts # built_from)
              /\ UNCHANGED <<results, pc, status>>
      /\ UNCHANGED <<contacts, interactive, command, term, output,
                     this_contacts, exclude_list, built_from, refreshes, calls,
                        filevars>>

\* the end of the search pass: the uids that did not match are removed and
\* this_contacts is returned
SearchDone ==
  /\ pc = "search"
  /\ ParseSearch(SearchTerm(term)).kind # "dict" \/ pos > Len(this_contacts)
  /\ this_contacts' = Without(this_contacts, not_match)
  /\ results' = Returned(Without(this_contacts, not_match))
  /\ pc' = "returned"
  /\ contacts' = SnapshotAfterRemove(contacts, not_match)
  /\ UNCHANGED <<interactive, command, term, output, status,
                 exclude_list, not_match, pos, built_from, stale, refreshes, calls,
                    filevars>>

\* Contacts.search after the call: the display names of the results are
\* read from self.contacts as it is now, and the table is printed
SearchTable ==
  /\ pc = "returned"
  /\ IF \E i \in DOMAIN results.ids : ~HasUid(contacts, results.ids[i])
     THEN KeyError /\ UNCHANGED <<output, stale>>
     ELSE /\ output' = SearchOutput(contacts, results.ids)
          /\ stale' = (stale \/ (results.ids # <<>> /\ contacts # built_from))
          /\ pc' = "done"
          /\ UNCHANGED <<results, status>>
  /\ UNCHANGED <<contacts, interactive, command, term, this_contacts,
                 exclude_list, not_match, pos, built_from, refreshes, calls,
                    filevars>>

\* Cmd.cmdloop in the watched shell: back to the prompt after a command;
\* the names of the call that ended keep no meaning
NextLine ==
  /\ pc = "done"
  /\ pc' = "prompt"
  /\ command' = ""
  /\ term' = <<>>
  /\ results' = NoResults
  /\ output' = NoOutput
  /\ built_from' = <<>>
  /\ stale' = FALSE
  /\ UNCHANGED <<contacts, interactive, status, this_contacts, exclude_list,
                 not_match, pos, refreshes, calls, filevars>>

NextWatched ==
  \/ on_any_event
  \/ do_search
  \/ ExcludeLoop
  \/ ExcludeDone
  \/ SearchLoop
  \/ SearchDone
  \/ SearchTable
  \/ NextLine

SpecWatched == InitWatched /\ [][NextWatched]_vars

\* ------------------------------------------------------------------------
\* The data directory, its loading and the delete command
\* ------------------------------------------------------------------------
\* the most files in the data directory
MaxFiles == 2

\* a file of the data directory
File(name, contact) == [path |-> name, contact |-> contact]

\* the files that may be in the directory: two records of the pool, a
\* second file with the uid of the first, a record whose alias is that of
\* another in small letters, one with the very alias of another, one
\* without alias, and a file that holds no contact
FilePool ==
  { File(<<"a">>, Some(Contact1)),
    File(<<"b">>, Some([Contact2 EXCEPT !.uid = Contact1.uid])),
    File(<<"c">>, Some(Contact3)),
    File(<<"d">>, Some([Contact4 EXCEPT !.alias = Some(<<"b", "o", "b">>)])),
    File(<<"e">>, Some([Contact2 EXCEPT !.alias = Contact3.alias])),
    File(<<"f">>, Some([Contact4 EXCEPT !.alias = None])),
    File(<<"g">>, None) }

\* the directories: lists of different files in the order scandir gives
RECURSIVE DirsOf(_)
DirsOf(n) ==
  IF n = 0 THEN {<<>>}
  ELSE {Append(q, f) : q \in DirsOf(n - 1), f \in FilePool}

Dirs ==
  {q \in UNION {DirsOf(n) : n \in 0..MaxFiles} :
     \A i, j \in DOMAIN q : i # j => q[i] # q[j]}

\* dict.get(key) is not empty
HasKey(d, key) == \E i \in DOMAIN d : d[i][1] = key

\* one turn of the loop of _parse_files over the entries of the directory:
\* a file whose uid is a key of this_contact_files or whose alias is a key
\* of aliases is skipped, and so is one without uid or alias
ParseEntry(acc, file) ==
  LET contact == file.contact[1]
      uid == contact.uid
      alias == contact.alias
      add_contact ==
        /\ ~(uid # <<>> /\ HasKey(acc.contact_files, uid))
        /\ ~(Truthy(alias) /\ HasKey(acc.aliases, alias[1]))
  IN  IF file.contact = None THEN acc
      ELSE IF add_contact /\ Truthy(alias) /\ uid # <<>>
      THEN [ contacts |-> Append(acc.contacts, contact),
             contact_files |-> Append(acc.contact_files, <<uid, file.path>>),
             aliases |-> Append(acc.aliases, <<alias[1], file.path>>) ]
      ELSE acc

\* _parse_files(): this_contacts and this_contact_files after the loop
RECURSIVE _parse_files(_)
_parse_files(dir) ==
  IF dir = <<>>
  THEN [contacts |-> <<>>, contact_files |-> <<>>, aliases |-> <<>>]
  ELSE ParseEntry(_parse_files(SubSeq(dir, 1, Len(dir) - 1)), dir[Len(dir)])

\* the directory after an event: a file deleted or a file created
DirAfterEvent(dir) ==
  {RemoveAt(dir, i) : i \in DOMAIN dir}
    \cup {Append(dir, f) :
            f \in {g \in FilePool :
                     Len(dir) < MaxFiles /\ \A i \in DOMAIN dir : dir[i] # g}}

\* the aliases typed after the delete command
DeleteAliases ==
  { <<"a", "n", "n", "1">>, <<"b", "o", "b">>, <<"z", "z">> }

\* _uid_from_alias(alias): the key of the last record whose stored alias is
\* the lower-cased argument
_uid_from_alias(snapshot, alias) ==
  LET hits == {i \in DOMAIN snapshot :
                 /\ Truthy(snapshot[i].alias)
                 /\ snapshot[i].alias[1] = Lower(alias)}
  IN  IF hits = {} THEN None
      ELSE Some(snapshot[CHOOSE i \in hits : \A j \in hits : j <= i].uid)

\* Contacts.__init__ has loaded the directory; the shell is at its prompt
InitFiles ==
  /\ data_dir \in Dirs
  /\ contacts = _parse_files(data_dir).contacts
  /\ contact_files = _parse_files(data_dir).contact_files
  /\ pending = None
  /\ uid_found = None
  /\ interactive = TRUE
  /\ pc = "prompt"
  /\ command = ""
  /\ term = <<>>
  /\ results = NoResults
  /\ output = NoOutput
  /\ status = -1
  /\ NoLoop
  /\ refreshes = 0
  /\ calls = 0

\* the observer's thread after an event in the directory (or after the
\* shell's own os.remove): on_any_event, do_refresh, refresh and
\* _parse_files down to self.contacts = this_contacts.copy()
LoadContacts ==
  /\ pending = None
  /\ refreshes < MaxRefresh
  /\ refreshes' = refreshes + 1
  /\ \E dir \in {data_dir} \cup DirAfterEvent(data_dir) :
       /\ data_dir' = dir
       /\ contacts' = _parse_files(dir).contacts
       /\ pending' = Some(_parse_files(dir).contact_files)
  /\ UNCHANGED <<interactive, pc, command, term, results, output, status,
                 loopvars, calls, contact_files, uid_found>>

\* the last statement of _parse_files:
\* self.contact_files = this_contact_files.copy()
LoadContactFiles ==
  /\ pending # None
  /\ contact_files' = pending[1]
  /\ pending' = None
  /\ UNCHANGED <<contacts, interactive, pc, command, term, results, output,
                 status, loopvars, refreshes, calls, data_dir, uid_found>>

\* do_delete and the first statements of Contacts.delete:
\* uid = self._uid_from_alias(alias), and _alias_not_found without a uid
do_delete ==
  /\ pc = "prompt"
  /\ \E alias \in DeleteAliases :
       /\ command' = "delete"
       /\ term' = Lower(alias)
       /\ uid_found' = _uid_from_alias(contacts, Lower(alias))
       /\ IF _uid_from_alias(contacts, Lower(alias)) = None
          THEN /\ output' = [text |-> "ERROR", rows |-> <<>>, count |-> 0]
               /\ pc' = "done"
          ELSE /\ output' = NoOutput
               /\ pc' = "delete"
  /\ UNCHANGED <<contacts, interactive, results, status, loopvars, refreshes,
                 calls, data_dir, contact_files, pending>>

\* the rest of Contacts.delete: filename = self.contact_files.get(uid),
\* then the answer to the question and os.remove(filename)
delete ==
  LET filename == Get(contact_files, uid_found[1])
  IN  /\ pc = "delete"
      /\ pc' = "done"
      /\ IF filename = None
         THEN /\ output' = [text |-> "ERROR", rows |-> <<>>, count |-> 0]
              /\ UNCHANGED data_dir
         ELSE \E confirm \in BOOLEAN :
                IF confirm
                THEN /\ data_dir' =
                          SelectSeq(data_dir,
                                    LAMBDA f : f.path # filename[1])
                     /\ output' = [text |-> "Deleted contact",
                                   rows |-> <<uid_found[1]>>, count |-> 1]
                ELSE /\ output' = [text |-> "Cancelled", rows |-> <<>>,
                                   count |-> 0]
                     /\ UNCHANGED data_dir
      /\ UNCHANGED <<contacts, interactive, command, term, results, status,
                     loopvars, refreshes, calls, contact_files, pending,
                     uid_found>>

NextFiles ==
  \/ LoadContacts
  \/ LoadContactFiles
  \/ do_delete
  \/ delete
  \/ NextLine

SpecFiles == InitFiles /\ [][NextFiles]_vars

\* ------------------------------------------------------------------------
\* Properties
\* ------------------------------------------------------------------------
\* the command of the state has called _perform_search
Ran == results.kind # "unset"

\* the uid is in the list a call returned; a call that returned no list
\* returned no record
IsReturned(uid, r) == r.kind = "list" /\ uid \in Range(r.ids)

\* _perform_search on the snapshot of the state
Run(t) == _perform_search(contacts, interactive, t)

\* the uids of the snapshot, in its order
AllUids == [i \in DOMAIN contacts |-> contacts[i].uid]

RecognizedKeys ==
  {K_uid, K_email, K_address, K_phone, K_alias, K_name, K_tags, K_birthday,
   K_anniversary}

\* the number of '=' in a piece of text
CountEq(text) == Cardinality({i \in DOMAIN text : text[i] = "="})

\* the clause is two criteria key=value with different recognized keys
IsPairClause(clause) ==
  LET items == Split(clause, ",")
  IN  /\ Len(items) = 2
      /\ \A i \in 1..2 : CountEq(items[i]) = 1
                           /\ Strip(KeyOf(items[i])) \in RecognizedKeys
      /\ Strip(KeyOf(items[1])) # Strip(KeyOf(items[2]))

\* the position of the first '%' of a term that has one
FirstPercent(t) ==
  CHOOSE i \in DOMAIN t : t[i] = "%" /\ \A j \in 1..(i - 1) : t[j] # "%"

\* the text before and after the first '%'
BeforePercent(t) == SubSeq(t, 1, FirstPercent(t) - 1)
AfterPercent(t) == SubSeq(t, FirstPercent(t) + 1, Len(t))

\* C1: a search clause of two criteria with different recognized keys and
\* no exclude clause returns a record iff the clause of the first criterion
\* alone returns it and the clause of the second alone returns it
C1_AndAcrossCriteria ==
  (Ran /\ ~HasPercent(term) /\ IsPairClause(Lower(term))) =>
    LET items == Split(term, ",")
    IN  \A i \in DOMAIN contacts :
          IsReturned(contacts[i].uid, results)
            <=> (IsReturned(contacts[i].uid, Run(items[1]))
                   /\ IsReturned(contacts[i].uid, Run(items[2])))

\* a two-criteria search has returned one record and left out another that
\* the first criterion alone returns
C1_Witness ==
  /\ Ran /\ ~HasPercent(term) /\ IsPairClause(Lower(term))
  /\ results.kind = "list" /\ results.ids # <<>>
  /\ \E i \in DOMAIN contacts :
       /\ ~IsReturned(contacts[i].uid, results)
       /\ IsReturned(contacts[i].uid, Run(Split(term, ",")[1]))

\* C2: with an exclude clause of two criteria, a record that either
\* criterion alone removes is never returned, and when the search clause
\* is empty or 'any' the records returned are exactly those that neither
\* criterion alone removes
C2_OrAcrossExclude ==
  (Ran /\ HasPercent(term) /\ IsPairClause(Lower(AfterPercent(term)))) =>
    LET items == Split(AfterPercent(term), ",")
        ra == Run(<<"%">> \o items[1])
        rb == Run(<<"%">> \o items[2])
    IN  /\ \A i \in DOMAIN contacts :
             IsReturned(contacts[i].uid, results)
               => (IsReturned(contacts[i].uid, ra)
                     /\ IsReturned(contacts[i].uid, rb))
        /\ Lower(BeforePercent(term)) \in {<<>>, S_any} =>
             /\ results.kind = "list"
             /\ \A i \in DOMAIN contacts :
                  IsReturned(contacts[i].uid, results)
                    <=> (IsReturned(contacts[i].uid, ra)
                           /\ IsReturned(contacts[i].uid, rb))

\* an exclude-only term of two criteria has removed a record that matches
\* the second criterion and not the first
C2_Witness ==
  /\ Ran /\ HasPercent(term) /\ IsPairClause(Lower(AfterPercent(term)))
  /\ BeforePercent(term) = <<>>
  /\ results.kind = "list" /\ results.ids # <<>>
  /\ \E i \in DOMAIN contacts :
       /\ ~IsReturned(contacts[i].uid, results)
       /\ IsReturned(contacts[i].uid,
                     Run(<<"%">> \o Split(AfterPercent(term), ",")[1]))

\* the term is S%X with exactly one '%' and both clauses parse
IsSearchExclude(t) ==
  /\ HasPercent(t)
  /\ ~HasPercent(AfterPercent(t))
  /\ ParseSearch(Lower(BeforePercent(t))).kind # "error"
  /\ ParseExclude(Some(Lower(AfterPercent(t)))).kind # "error"

\* C3: the records returned for S%X are exactly the records returned for S
\* that %X does not remove
C3_SearchExcludeCompose ==
  (Ran /\ IsSearchExclude(term)) =>
    \A i \in DOMAIN contacts :
      IsReturned(contacts[i].uid, results)
        <=> (IsReturned(contacts[i].uid, Run(BeforePercent(term)))
               /\ IsReturned(contacts[i].uid,
                             Run(<<"%">> \o AfterPercent(term))))

\* C4: a term %X whose clause X parses returns exactly the records of the
\* snapshot that the criteria of X do not match, in the snapshot's order
C4_ExcludeOnly ==
  (Ran /\ HasPercent(term) /\ BeforePercent(term) = <<>>
       /\ ~HasPercent(AfterPercent(term))
       /\ ParseExclude(Some(Lower(AfterPercent(term)))).kind = "dict") =>
    LET x == ExcludeVars(ParseExclude(Some(Lower(AfterPercent(term)))).dict)
        kept == SelectSeq(contacts,
                  LAMBDA rec : ~ExcludeRemove(rec.uid, _parse_contact(rec), x))
    IN  /\ results.kind = "list"
        /\ results.ids = [i \in DOMAIN kept |-> kept[i].uid]

\* an exclude-only term has removed one record and returned another
C4_Witness ==
  /\ Ran /\ HasPercent(term) /\ BeforePercent(term) = <<>>
  /\ ~HasPercent(AfterPercent(term))
  /\ results.kind = "list"
  /\ results.ids # <<>> /\ Len(results.ids) < Len(contacts)

\* the term has an empty or 'any' search clause and no exclude clause
IsWildcard(t) ==
  Lower(t) \in {<<>>, S_any, <<"%">>, S_any \o <<"%">>}

\* C5: an empty or 'any' search clause without an exclude clause returns
\* every record of the snapshot
C5_Wildcard ==
  (Ran /\ IsWildcard(term)) =>
    results.kind = "list" /\ results.ids = AllUids

\* the term 'any' has returned a snapshot of two records
C5_Witness ==
  /\ Ran /\ Lower(term) = S_any
  /\ results.kind = "list" /\ Len(results.ids) = 2

\* some comma-separated segment of the clause does not have exactly one '='
HasBadSegment(clause) ==
  \E i \in DOMAIN Split(clause, ",") : CountEq(Split(clause, ",")[i]) # 1

\* the search clause, or else the exclude clause, has a recognized key
\* token and a segment without exactly one '='
SearchClauseInvalid(t) ==
  HasCriteria(SearchTerm(t)) /\ HasBadSegment(SearchTerm(t))

ExcludeClauseInvalid(t) ==
  /\ Truthy(ExcludeTerm(t))
  /\ HasCriteria(ExcludeTerm(t)[1]) /\ HasBadSegment(ExcludeTerm(t)[1])

\* C6: for a term whose clauses parse, _perform_search raises nothing and
\* returns a list of ids
C6_EvaluatorNeverFails ==
  (Ran /\ ~SearchClauseInvalid(term) /\ ~ExcludeClauseInvalid(term)) =>
    results.kind = "list"

\* C7: a phone criterion of the search clause is compared by the digits of
\* its own value, whatever the exclude clause holds
C7_SearchPhoneOwnValue ==
  (Ran /\ ParseSearch(SearchTerm(term)).kind = "dict"
       /\ ParseExclude(ExcludeTerm(term)).kind # "error"
       /\ Truthy(Get(ParseSearch(SearchTerm(term)).dict, K_phone))) =>
    LET own == Get(ParseSearch(SearchTerm(term)).dict, K_phone)[1]
        s_phone == SPhone(Some(own), ParseExclude(ExcludeTerm(term)))
    IN  /\ s_phone.err = ""
        /\ s_phone.v = XPhone(Some(own))
        /\ results.kind = "list"
        /\ StripNonDigits(own) # <<>> =>
             \A i \in DOMAIN contacts :
               IsReturned(contacts[i].uid, results) =>
                 /\ Truthy(contacts[i].phones)
                 /\ PhoneHit(StripNonDigits(own), contacts[i])

\* the term has more than one '%'
HasManyPercent(t) == HasPercent(t) /\ HasPercent(AfterPercent(t))

\* C8 as stated: with more than one '%' the exclude clause is all the text
\* after the first '%'
C8_ExcludeIsRestOfTerm ==
  (Ran /\ HasManyPercent(term)) =>
    /\ SearchTerm(term) = Lower(BeforePercent(term))
    /\ ExcludeTerm(term) = Some(Lower(AfterPercent(term)))

\* C8 amended: with more than one '%' the search clause is the text before
\* the first '%', the exclude clause is the text between the first and the
\* second '%', and the text from the second '%' on is discarded: the call
\* comes to what it comes to for the term cut before its second '%'
C8_ExcludeIsSecondPart ==
  (Ran /\ HasManyPercent(term)) =>
    LET between == BeforePercent(AfterPercent(term))
    IN  /\ SearchTerm(term) = Lower(BeforePercent(term))
        /\ ExcludeTerm(term) = Some(Lower(between))
        /\ results = Run(BeforePercent(term) \o <<"%">> \o between)

\* a term with text after its second '%' has returned a record
C8_Witness ==
  /\ Ran /\ HasManyPercent(term)
  /\ AfterPercent(AfterPercent(term)) # <<>>
  /\ results.kind = "list" /\ results.ids # <<>>

\* C9: when a clause fails to parse, the process exits with status 1
\* outside the shell, and inside the shell the command reports no results
\* and the shell goes on
C9_InvalidExpressionByMode ==
  (Ran /\ (SearchClauseInvalid(term) \/ ExcludeClauseInvalid(term))) =>
    IF ~interactive
    THEN pc = "exited" /\ status = 1
    ELSE /\ pc = "done" /\ status = -1
         /\ output.text \in {"No results.", "No records found."}

\* C10: a clause with a recognized key token is rejected iff one of its
\* comma-separated segments does not have exactly one '=', the search
\* clause first; a clause that is not rejected parses into the pairs of
\* the trimmed text before and after the '=' of each segment
C10_InvalidExpressionIff ==
  Ran =>
    LET st == SearchTerm(term)
        et == ExcludeTerm(term)
        rejected(msg) == results.kind \in {"exit", "none"} /\ results.err = msg
        trimmed(clause) ==
          [i \in DOMAIN Split(clause, ",") |->
             LET seg == Split(clause, ",")[i]
                 eq == CHOOSE k \in DOMAIN seg : seg[k] = "="
             IN  << Strip(SubSeq(seg, 1, eq - 1)),
                    Strip(SubSeq(seg, eq + 1, Len(seg))) >>]
    IN  /\ rejected("invalid search expression") <=> SearchClauseInvalid(term)
        /\ rejected("invalid exclude expression")
             <=> (~SearchClauseInvalid(term) /\ ExcludeClauseInvalid(term))
        /\ (HasCriteria(st) /\ ~HasBadSegment(st)) =>
             ParseSearch(st) = [kind |-> "dict", dict |-> trimmed(st)]
        /\ (Truthy(et) /\ HasCriteria(et[1]) /\ ~HasBadSegment(et[1])) =>
             ParseExclude(et) = [kind |-> "dict", dict |-> trimmed(et[1])]

\* a clause whose second segment has no '=' has been rejected
C10_Witness ==
  /\ Ran /\ SearchClauseInvalid(term)
  /\ Len(Split(SearchTerm(term), ",")) = 2
  /\ CountEq(Split(SearchTerm(term), ",")[1]) = 1
  /\ CountEq(Split(SearchTerm(term), ",")[2]) = 0
  /\ results.err = "invalid search expression"

\* ------------------------------------------------------------------------
\* The criteria one at a time
\* ------------------------------------------------------------------------
\* the number of '%' in a term
CountPercent(t) == Cardinality({i \in DOMAIN t : t[i] = "%"})

\* the search clause and the exclude clause of a term with at most one '%',
\* lower-cased
SearchClause(t) == Lower(IF HasPercent(t) THEN BeforePercent(t) ELSE t)
ExcludeClause(t) == IF HasPercent(t) THEN Lower(AfterPercent(t)) ELSE <<>>

\* the clause contains none of the nine tokens 'uid=' .. 'anniversary='
NoToken(clause) ==
  \A k \in RecognizedKeys : ~Contains(k \o <<"=">>, clause)

\* the record's display name contains the value, whatever the case
NameHit(value, rec) ==
  Truthy(rec.display) /\ Contains(value, Lower(rec.display[1]))

\* the search clause acts as the one criterion name=<trimmed clause>
ImplicitNameSearch ==
  LET value == Strip(SearchClause(term))
  IN  /\ results.err # "invalid search expression"
      /\ ParseSearch(SearchClause(term)) =
            [kind |-> "dict", dict |-> << <<K_name, value>> >>]
      /\ ~HasPercent(term) =>
            /\ results.kind = "list"
            /\ \A i \in DOMAIN contacts :
                 IsReturned(contacts[i].uid, results)
                   <=> (value = <<>> \/ NameHit(value, contacts[i]))

\* the exclude clause acts as the one criterion name=<trimmed clause>
ImplicitNameExclude ==
  LET value == Strip(ExcludeClause(term))
  IN  /\ results.err # "invalid exclude expression"
      /\ ParseExclude(Some(ExcludeClause(term))) =
            [kind |-> "dict", dict |-> << <<K_name, value>> >>]
      /\ SearchClause(term) = <<>> =>
            /\ results.kind = "list"
            /\ \A i \in DOMAIN contacts :
                 IsReturned(contacts[i].uid, results)
                   <=> ~(value # <<>> /\ NameHit(value, contacts[i]))

IsSingle(clause, key) ==
  /\ CountEq(clause) = 1
  /\ ~Contains(<<",">>, clause)
  /\ Strip(KeyOf(clause)) = key

\* the value of a clause of one criterion, as the parse keeps it
ValueOf(clause) == Strip(Split(clause, "=")[2])

\* the term is a search clause of one criterion of the key, no '%'
SearchOnly(key) == ~HasPercent(term) /\ IsSingle(SearchClause(term), key)

\* the term is '%' and an exclude clause of one criterion of the key
ExcludeOnly(key) ==
  /\ CountPercent(term) = 1 /\ SearchClause(term) = <<>>
  /\ IsSingle(ExcludeClause(term), key)

\* the number a digit character stands for
DigitOf(c) == CHOOSE n \in 0..9 : DigitChar(n) = c

\* the number written by a string of digits
RECURSIVE NumberOf(_)
NumberOf(s) ==
  IF s = <<>> THEN 0
  ELSE 10 * NumberOf(SubSeq(s, 1, Len(s) - 1)) + DigitOf(s[Len(s)])

\* the characters a..b of q are digits that write the number n
Field(q, a, b, n) ==
  /\ \A i \in a..b : q[i] \in Digits
  /\ NumberOf(SubSeq(q, a, b)) = n

\* q is the date t written as YYYY-MM-DD, YYYY-MM, MM-DD, YYYY or MM,
\* whichever has the length of q
DateMatches(q, t) ==
  CASE Len(q) = 10 -> /\ Field(q, 1, 4, t.y) /\ q[5] = "-"
                      /\ Field(q, 6, 7, t.m) /\ q[8] = "-"
                      /\ Field(q, 9, 10, t.d)
    [] Len(q) = 7 -> Field(q, 1, 4, t.y) /\ q[5] = "-" /\ Field(q, 6, 7, t.m)
    [] Len(q) = 5 -> Field(q, 1, 2, t.m) /\ q[3] = "-" /\ Field(q, 4, 5, t.d)
    [] Len(q) = 4 -> Field(q, 1, 4, t.y)
    [] Len(q) = 2 -> Field(q, 1, 2, t.m)
    [] OTHER -> FALSE

\* the stored date of the record under the key, when it has one that parses
DateField(rec, key) == IF key = K_birthday THEN rec.birthday ELSE rec.anniversary
HasDate(rec, key) == DateField(rec, key) # None /\ DateField(rec, key)[1].parsable

\* the record's date under the key matches q by the rule of lengths
DateHit(q, rec, key) ==
  HasDate(rec, key) /\ DateMatches(q, DateField(rec, key)[1])

\* C12: _compare_dates(q, t) is true iff q has length 10, 7, 5, 4 or 2 and
\* is t written as YYYY-MM-DD, YYYY-MM, MM-DD, YYYY or MM; a birthday or
\* anniversary criterion alone in a search clause returns exactly the records
\* whose date matches so, and alone in an exclude clause removes exactly those
C12_DateByLength ==
  Ran =>
    \A key \in {K_birthday, K_anniversary} :
      /\ (SearchOnly(key) /\ ValueOf(SearchClause(term)) # <<>>) =>
           LET q == ValueOf(SearchClause(term))
           IN  /\ results.kind = "list"
               /\ \A i \in DOMAIN contacts :
                    /\ IsReturned(contacts[i].uid, results)
                          <=> DateHit(q, contacts[i], key)
                    /\ HasDate(contacts[i], key) =>
                          (_compare_dates(q, DateField(contacts[i], key)[1])
                            <=> DateMatches(q, DateField(contacts[i], key)[1]))
      /\ (ExcludeOnly(key) /\ ValueOf(ExcludeClause(term)) # <<>>) =>
           LET q == ValueOf(ExcludeClause(term))
           IN  /\ results.kind = "list"
               /\ \A i \in DOMAIN contacts :
                    IsReturned(contacts[i].uid, results)
                      <=> ~DateHit(q, contacts[i], key)

\* a birthday criterion of five characters returned a record, beside one
\* it did not return
C12_Witness ==
  /\ Ran /\ SearchOnly(K_birthday)
  /\ Len(ValueOf(SearchClause(term))) = 5
  /\ results.kind = "list"
  /\ Len(results.ids) = 1 /\ Len(contacts) = 2

\* the set of tags of a record
TagSet(rec) == IF rec.tags = None THEN {} ELSE Range(rec.tags[1])

\* one of the tags t1+t2+... of the value is a tag of the record
TagMatch(value, rec) ==
  \E t \in Range(Split(value, "+")) : t \in TagSet(rec)

\* C13: a criterion tags=t1+t2+... alone in a search clause returns exactly
\* the records that have at least one ti among their tags (equality of
\* whole tags), and alone in an exclude clause removes exactly those
C13_TagOr ==
  Ran =>
    /\ (SearchOnly(K_tags) /\ ValueOf(SearchClause(term)) # <<>>) =>
         /\ results.kind = "list"
         /\ \A i \in DOMAIN contacts :
              IsReturned(contacts[i].uid, results)
                <=> TagMatch(ValueOf(SearchClause(term)), contacts[i])
    /\ (ExcludeOnly(K_tags) /\ ValueOf(ExcludeClause(term)) # <<>>) =>
         /\ results.kind = "list"
         /\ \A i \in DOMAIN contacts :
              IsReturned(contacts[i].uid, results)
                <=> ~TagMatch(ValueOf(ExcludeClause(term)), contacts[i])

\* a tags criterion of several tags returned a record that has one of them
\* and lacks another, beside a record it did not return
C13_Witness ==
  /\ Ran /\ SearchOnly(K_tags)
  /\ results.kind = "list"
  /\ Len(results.ids) = 1 /\ Len(contacts) = 2
  /\ \E i \in DOMAIN contacts :
       /\ IsReturned(contacts[i].uid, results)
       /\ \E t \in Range(Split(ValueOf(SearchClause(term)), "+")) :
            t \notin TagSet(contacts[i])

\* the entries of a multi-valued field of a record
Entries(field) == IF field = None THEN <<>> ELSE field[1]

\* at least one entry of the record's field of the key contains the value:
\* an email whatever the case, a phone number by its digits, an address by
\* its flattened string
SomeEntryContains(key, value, rec) ==
  CASE key = K_email ->
         \E i \in DOMAIN Entries(rec.emails) :
           LET e == Entries(rec.emails)[i].email
           IN  Truthy(e) /\ Contains(value, Lower(e[1]))
    [] key = K_phone ->
         \E i \in DOMAIN Entries(rec.phones) :
           LET n == Entries(rec.phones)[i].number
           IN  Truthy(n)
                 /\ Contains(StripNonDigits(value), StripNonDigits(n[1]))
    [] OTHER ->
         \E i \in DOMAIN Entries(rec.addresses) :
           Contains(value, Lower(ThisAddress(Entries(rec.addresses)[i])))

\* the value of a criterion of the key is one that is compared: not empty,
\* and with a digit when it is a phone value
Compared(key, value) ==
  value # <<>> /\ (key = K_phone => StripNonDigits(value) # <<>>)

\* C14: an email, phone or address criterion alone in a search clause
\* returns exactly the records of which at least one entry contains the
\* value, and alone in an exclude clause removes exactly those
C14_OrWithinField ==
  Ran =>
    \A key \in {K_email, K_phone, K_address} :
      /\ (SearchOnly(key) /\ Compared(key, ValueOf(SearchClause(term)))) =>
           /\ results.kind = "list"
           /\ \A i \in DOMAIN contacts :
                IsReturned(contacts[i].uid, results)
                  <=> SomeEntryContains(key, ValueOf(SearchClause(term)),
                                        contacts[i])
      /\ (ExcludeOnly(key) /\ Compared(key, ValueOf(ExcludeClause(term)))) =>
           /\ results.kind = "list"
           /\ \A i \in DOMAIN contacts :
                IsReturned(contacts[i].uid, results)
                  <=> ~SomeEntryContains(key, ValueOf(ExcludeClause(term)),
                                         contacts[i])

\* the record has nothing in the field the key is compared with
Absent(rec, key) ==
  CASE key = K_name -> ~Truthy(rec.display)
    [] key = K_tags -> ~Truthy(rec.tags)
    [] key = K_birthday -> ~HasDate(rec, K_birthday)
    [] key = K_anniversary -> ~HasDate(rec, K_anniversary)
    [] key = K_email -> ~Truthy(rec.emails)
    [] key = K_phone -> ~Truthy(rec.phones)
    [] OTHER -> ~Truthy(rec.addresses)

\* the keys that are compared with a field and not with the identity
FieldKeys == RecognizedKeys \ {K_uid, K_alias}

\* C15: a record without the field of a criterion of the search clause is
\* not returned, and a record without the field of the one criterion of an
\* exclude clause is not removed
C15_AbsentFields ==
  (Ran /\ CountPercent(term) <= 1) =>
    \A key \in FieldKeys :
      /\ LET parsed == ParseSearch(SearchClause(term))
         IN  (/\ parsed.kind = "dict"
              /\ Get(parsed.dict, key) # None
              /\ Compared(key, Get(parsed.dict, key)[1])) =>
               \A i \in DOMAIN contacts :
                 Absent(contacts[i], key)
                   => ~IsReturned(contacts[i].uid, results)
      /\ (ExcludeOnly(key) /\ Compared(key, ValueOf(ExcludeClause(term)))) =>
           /\ results.kind = "list"
           /\ \A i \in DOMAIN contacts :
                Absent(contacts[i], key)
                  => IsReturned(contacts[i].uid, results)

\* C16: a phone criterion is compared by the digits of its value, and one
\* whose value has no digit is dropped: alone in a search clause or alone in
\* an exclude clause it returns every record
C16_PhoneDigits ==
  Ran =>
    /\ SearchOnly(K_phone) =>
         LET value == ValueOf(SearchClause(term))
         IN  IF StripNonDigits(value) = <<>>
             THEN results.kind = "list" /\ results.ids = AllUids
             ELSE results = Run(Crit(K_phone, StripNonDigits(value)))
    /\ ExcludeOnly(K_phone) =>
         LET value == ValueOf(ExcludeClause(term))
         IN  IF StripNonDigits(value) = <<>>
             THEN results.kind = "list" /\ results.ids = AllUids
             ELSE results =
                    Run(<<"%">> \o Crit(K_phone, StripNonDigits(value)))

\* the uid or the alias of the record is the value, in full; the alias is
\* compared in lower case
IdentityIs(key, value, rec) ==
  IF key = K_uid THEN rec.uid = value
  ELSE Truthy(rec.alias) /\ Lower(rec.alias[1]) = value

\* C17: a uid or alias criterion alone in a search clause returns exactly
\* the records whose uid or alias equals the value in full, and alone in an
\* exclude clause removes exactly those; a value that is only a part of the
\* uid or alias matches nothing
C17_IdentityExact ==
  Ran =>
    \A key \in {K_uid, K_alias} :
      /\ (SearchOnly(key) /\ ValueOf(SearchClause(term)) # <<>>) =>
           /\ results.kind = "list"
           /\ \A i \in DOMAIN contacts :
                IsReturned(contacts[i].uid, results)
                  <=> IdentityIs(key, ValueOf(SearchClause(term)), contacts[i])
      /\ (ExcludeOnly(key) /\ ValueOf(ExcludeClause(term)) # <<>>) =>
           /\ results.kind = "list"
           /\ \A i \in DOMAIN contacts :
                IsReturned(contacts[i].uid, results)
                  <=> ~IdentityIs(key, ValueOf(ExcludeClause(term)),
                                  contacts[i])

\* an alias criterion whose value is a proper part of the alias of each
\* record returned nothing
C17_Witness ==
  /\ Ran /\ SearchOnly(K_alias)
  /\ results.kind = "list" /\ results.ids = <<>>
  /\ Len(contacts) = 2
  /\ \A i \in DOMAIN contacts :
       /\ Truthy(contacts[i].alias)
       /\ Contains(ValueOf(SearchClause(term)), Lower(contacts[i].alias[1]))

\* the non-empty components of an address entry, in the order address1,
\* address2, city, state, zipcode, country
Components(entry) ==
  LET all == << entry.address1, entry.address2, entry.city, entry.state,
                entry.zipcode, entry.country >>
      kept == SelectSeq(all, Truthy)
  IN  [i \in DOMAIN kept |-> kept[i][1]]

\* the parts joined with ';' between them
RECURSIVE JoinSemicolon(_)
JoinSemicolon(parts) ==
  IF parts = <<>> THEN <<>>
  ELSE IF Len(parts) = 1 THEN parts[1]
  ELSE parts[1] \o <<";">> \o JoinSemicolon(Tail(parts))

\* the parts written each with a ';' after it
Terminated(parts) ==
  IF parts = <<>> THEN <<>> ELSE JoinSemicolon(parts) \o <<";">>

\* some address entry of the record, flattened by the join alone or with
\* the ';' that ends it, contains the value
InJoin(value, rec) ==
  \E i \in DOMAIN Entries(rec.addresses) :
    Contains(value, Lower(JoinSemicolon(Components(Entries(rec.addresses)[i]))))
InTerminated(value, rec) ==
  \E i \in DOMAIN Entries(rec.addresses) :
    Contains(value, Lower(Terminated(Components(Entries(rec.addresses)[i]))))

\* C18 as stated: an address criterion matches a record iff its value is
\* part of the lower-cased ';'-join of the non-empty components of one of
\* the record's address entries, and of nothing more than that join
C18_AddressJoin ==
  Ran =>
    /\ (SearchOnly(K_address) /\ ValueOf(SearchClause(term)) # <<>>) =>
         /\ results.kind = "list"
         /\ \A i \in DOMAIN contacts :
              IsReturned(contacts[i].uid, results)
                <=> InJoin(ValueOf(SearchClause(term)), contacts[i])
    /\ (ExcludeOnly(K_address) /\ ValueOf(ExcludeClause(term)) # <<>>) =>
         /\ results.kind = "list"
         /\ \A i \in DOMAIN contacts :
              IsReturned(contacts[i].uid, results)
                <=> ~InJoin(ValueOf(ExcludeClause(term)), contacts[i])

\* C18 amended: the flattened string has a ';' after every non-empty
\* component, the last one too
C18_AddressTerminated ==
  Ran =>
    /\ (SearchOnly(K_address) /\ ValueOf(SearchClause(term)) # <<>>) =>
         /\ results.kind = "list"
         /\ \A i \in DOMAIN contacts :
              IsReturned(contacts[i].uid, results)
                <=> InTerminated(ValueOf(SearchClause(term)), contacts[i])
    /\ (ExcludeOnly(K_address) /\ ValueOf(ExcludeClause(term)) # <<>>) =>
         /\ results.kind = "list"
         /\ \A i \in DOMAIN contacts :
              IsReturned(contacts[i].uid, results)
                <=> ~InTerminated(ValueOf(ExcludeClause(term)), contacts[i])

\* an address criterion returned a record through the ';' written after
\* the last component of an entry, and left out a record with addresses
C18_Witness ==
  /\ Ran /\ SearchOnly(K_address)
  /\ results.kind = "list" /\ Len(results.ids) = 1 /\ Len(contacts) = 2
  /\ \A i \in DOMAIN contacts :
       /\ Truthy(contacts[i].addresses)
       /\ ~InJoin(ValueOf(SearchClause(term)), contacts[i])

\* a string in capital letters
UpperChar(c) ==
  IF \E i \in DOMAIN LowerCase : LowerCase[i] = c
  THEN UpperCase[CHOOSE i \in DOMAIN LowerCase : LowerCase[i] = c]
  ELSE c
Upper(s) == [i \in DOMAIN s |-> UpperChar(s[i])]

\* a str-or-None in capital letters (up) or in small letters
Recase(opt, up) ==
  IF opt = None THEN None
  ELSE Some(IF up THEN Upper(opt[1]) ELSE Lower(opt[1]))

\* the record with its display name, its email addresses and its address
\* components in capital letters (up) or in small letters
RecaseRecord(rec, up) ==
  [ rec EXCEPT
      !.display = Recase(rec.display, up),
      !.emails =
        IF rec.emails = None THEN None
        ELSE Some([i \in DOMAIN rec.emails[1] |->
                    [rec.emails[1][i] EXCEPT
                       !.email = Recase(rec.emails[1][i].email, up)]]),
      !.addresses =
        IF rec.addresses = None THEN None
        ELSE Some([i \in DOMAIN rec.addresses[1] |->
                    LET e == rec.addresses[1][i]
                    IN  [ address1 |-> Recase(e.address1, up),
                          address2 |-> Recase(e.address2, up),
                          city |-> Recase(e.city, up),
                          state |-> Recase(e.state, up),
                          zipcode |-> Recase(e.zipcode, up),
                          country |-> Recase(e.country, up) ]]) ]

\* the snapshot with every record so changed
RecaseSnapshot(snapshot, up) ==
  [i \in DOMAIN snapshot |-> RecaseRecord(snapshot[i], up)]

\* C19: the call comes to the same when the term is put in capital letters,
\* and when the display names, email addresses and address components of
\* the records are put in capital or in small letters
C19_CaseInsensitive ==
  Ran =>
    /\ results = Run(Upper(term))
    /\ results = Run(Lower(term))
    /\ results = _perform_search(RecaseSnapshot(contacts, TRUE),
                                 interactive, term)
    /\ results = _perform_search(RecaseSnapshot(contacts, FALSE),
                                 interactive, term)

\* an email criterion written in capital letters returned a record whose
\* email address has the value in another case only
C19_Witness ==
  /\ Ran /\ SearchOnly(K_email)
  /\ term # Lower(term)
  /\ results.kind = "list" /\ Len(results.ids) = 1 /\ Len(contacts) = 2
  /\ \E i \in DOMAIN contacts :
       /\ IsReturned(contacts[i].uid, results)
       /\ \A j \in DOMAIN Entries(contacts[i].emails) :
            LET e == Entries(contacts[i].emails)[j].email
            IN  Truthy(e) =>
                  /\ ~Contains(ValueOf(SearchClause(term)), e[1])
                  /\ ~Contains(Split(term, "=")[2], e[1])

\* C20: a search of the shell reads every record from the self.contacts
\* its candidate list was built from, never fails on a uid a refresh took
\* away, and comes to what _perform_search gives on that one snapshot
C20_OneSnapshot ==
  /\ ~stale
  /\ ~(pc = "crashed" /\ results = Raised("KeyError"))
  /\ pc \in {"returned", "done"} =>
       results = _perform_search(built_from, TRUE, term)

\* ------------------------------------------------------------------------
\* The engine and its callers
\* ------------------------------------------------------------------------
\* C21: a call of _perform_search, whether it returns, exits or raises,
\* leaves Contacts.contacts with the same records, each with the same
\* field values
C21_SnapshotUnchanged ==
  [][pc = "dispatch" => contacts' = contacts]_vars

\* a call returned fewer uids than the snapshot has records, and the
\* snapshot still has them all
C21_Witness ==
  /\ Ran /\ results.kind = "list"
  /\ Len(results.ids) < Len(contacts)
  /\ Len(contacts) = MaxContacts

\* C22: whatever searches the shell ran before, a search comes to what
\* _perform_search gives for its term on the snapshot, as if it were the
\* first (the snapshot is the one the shell started with while no refresh
\* has been made)
C22_Stateless ==
  (refreshes = 0 /\ pc \in {"returned", "done", "crashed"}) =>
    results = _perform_search(contacts, TRUE, term)

\* a second search of the same shell returned one record out of several
C22_Witness ==
  /\ calls = MaxCalls /\ refreshes = 0
  /\ pc = "returned"
  /\ Len(results.ids) = 1 /\ Len(contacts) > 1

\* C23: after a load or a refresh no two records of Contacts.contacts have
\* the same uid, and no two have the same alias when the letter case is
\* left out of the comparison
C23_UniqueAfterLoad ==
  \A i, j \in DOMAIN contacts :
    i # j =>
      /\ contacts[i].uid # contacts[j].uid
      /\ Lower(contacts[i].alias[1]) # Lower(contacts[j].alias[1])


\* mutt has run on the term
MuttRan == pc = "exited" /\ command = "mutt"

\* the records whose alias is the lower-cased term
AliasOwners ==
  {i \in DOMAIN contacts :
     /\ Truthy(contacts[i].alias)
     /\ Lower(contacts[i].alias[1]) = Lower(term)}

\* the primary email address of a record, or its first one when no entry
\* is flagged primary
PrimaryOrFirst(rec) ==
  LET entries == rec.emails[1]
  IN  IF \E j \in DOMAIN entries : entries[j].primary
      THEN entries[CHOOSE j \in DOMAIN entries : entries[j].primary].email
      ELSE entries[1].email

\* the line of a record whose alias is the term
AliasLine(rec) ==
  IF Truthy(rec.emails) /\ Truthy(PrimaryOrFirst(rec))
  THEN << <<PrimaryOrFirst(rec)[1], rec.display, Lower(rec.alias[1])>> >>
  ELSE <<>>

\* the (email, display, alias) lines of the records where the text is part
\* of the lower-cased email or display name; named: only the records that
\* have a display name
RECURSIVE ScanLines(_, _, _)
ScanLines(snapshot, text, named) ==
  IF snapshot = <<>> THEN <<>>
  ELSE LET rec == Head(snapshot)
           entries == IF Truthy(rec.emails) THEN rec.emails[1] ELSE <<>>
           hit(entry) ==
             /\ Truthy(entry.email)
             /\ named => Truthy(rec.display)
             /\ \/ Contains(text, Lower(entry.email[1]))
                \/ Truthy(rec.display)
                     /\ Contains(text, Lower(rec.display[1]))
           kept == SelectSeq(entries, hit)
       IN  [j \in DOMAIN kept |->
              <<kept[j].email[1], rec.display, Lower(rec.alias[1])>>]
             \o ScanLines(Tail(snapshot), text, named)

C24_WitnessScan ==
  /\ MuttRan
  /\ term = <<"z", "o">>
  /\ \E i \in DOMAIN contacts : contacts[i] = Contact4
  /\ status = 1

\* ids is a subsequence of all: its elements are elements of all, in the
\* order they have in all
IsSubsequence(ids, all) ==
  \E f \in [DOMAIN ids -> DOMAIN all] :
    /\ \A i \in DOMAIN ids : all[f[i]] = ids[i]
    /\ \A i, j \in DOMAIN ids : i < j => f[i] < f[j]

\* C25: the list _perform_search returns is a subsequence of the uids of
\* the snapshot in the snapshot's order, and no uid is in it twice.
C25_ResultShape ==
  (Ran /\ results.kind = "list") =>
    /\ IsSubsequence(results.ids, AllUids)
    /\ \A i, j \in DOMAIN results.ids :
         i # j => results.ids[i] # results.ids[j]

\* a search on an email address has returned both records of a snapshot
\* that holds u3 before u1, in that order
C25_Witness ==
  /\ Ran /\ results.kind = "list"
  /\ term = <<"e", "m", "a", "i", "l", "=", "@", "X">>
  /\ AllUids = << <<"u", "3">>, <<"u", "1">> >>
  /\ results.ids = AllUids

\* the clause is made of criteria key=value with recognized keys, which
\* may be the same
IsCriteriaClause(clause) ==
  \A i \in DOMAIN Split(clause, ",") :
    /\ CountEq(Split(clause, ",")[i]) = 1
    /\ Strip(KeyOf(Split(clause, ",")[i])) \in RecognizedKeys

\* two criteria of the clause have the same key
HasRepeatedKey(clause) ==
  \E i, j \in DOMAIN Split(clause, ",") :
    /\ i # j
    /\ Strip(KeyOf(Split(clause, ",")[i]))
         = Strip(KeyOf(Split(clause, ",")[j]))

\* C26: every comma-separated criterion of a clause counts, also when two
\* criteria have the same key: a search clause returns a record iff each
\* of its criteria alone returns it, and an exclude clause returns a
\* record iff none of its criteria alone removes it.
C26_EverySegment ==
  /\ (Ran /\ ~HasPercent(term) /\ IsCriteriaClause(Lower(term))) =>
       \A i \in DOMAIN contacts :
         IsReturned(contacts[i].uid, results)
           <=> \A k \in DOMAIN Split(term, ",") :
                 IsReturned(contacts[i].uid, Run(Split(term, ",")[k]))
  /\ (Ran /\ HasPercent(term) /\ BeforePercent(term) = <<>>
        /\ IsCriteriaClause(Lower(AfterPercent(term)))) =>
       \A i \in DOMAIN contacts :
         IsReturned(contacts[i].uid, results)
           <=> \A k \in DOMAIN Split(AfterPercent(term), ",") :
                 IsReturned(contacts[i].uid,
                            Run(<<"%">> \o Split(AfterPercent(term), ",")[k]))

\* C26 for the clauses whose criteria have different keys
C26_EverySegmentOfDifferentKeys ==
  /\ (Ran /\ ~HasPercent(term) /\ IsCriteriaClause(Lower(term))
        /\ ~HasRepeatedKey(Lower(term))) =>
       \A i \in DOMAIN contacts :
         IsReturned(contacts[i].uid, results)
           <=> \A k \in DOMAIN Split(term, ",") :
                 IsReturned(contacts[i].uid, Run(Split(term, ",")[k]))
  /\ (Ran /\ HasPercent(term) /\ BeforePercent(term) = <<>>
        /\ IsCriteriaClause(Lower(AfterPercent(term)))
        /\ ~HasRepeatedKey(Lower(AfterPercent(term)))) =>
       \A i \in DOMAIN contacts :
         IsReturned(contacts[i].uid, results)
           <=> \A k \in DOMAIN Split(AfterPercent(term), ",") :
                 IsReturned(contacts[i].uid,
                            Run(<<"%">> \o Split(AfterPercent(term), ",")[k]))

\* 'tags=archive,tags=work' has returned a record that has the tag work
\* and not the tag archive
C26_WitnessRepeated ==
  /\ Ran /\ results.kind = "list"
  /\ term = <<"t", "a", "g", "s", "=", "a", "r", "c", "h", "i", "v", "e",
              ",", "t", "a", "g", "s", "=", "w", "o", "r", "k">>
  /\ results.ids = << <<"u", "3">> >>
  /\ <<"a", "r", "c", "h", "i", "v", "e">> \notin TagSet(contacts[1])

\* the records of the snapshot whose uid the term asks for, as 'uid=<uid>'
AskedByUid == {i \in DOMAIN contacts : term = Crit(K_uid, contacts[i].uid)}

\* C27: for every record of the collection, whatever the letter case of
\* its uid, the term 'uid=<its uid>' returns the list of that one uid.
C27_SelfLookup ==
  Ran => \A i \in AskedByUid : results = Returned(<<contacts[i].uid>>)

\* C27 for the records whose uid has no upper-case letter
C27_SelfLookupLowerCase ==
  Ran => \A i \in AskedByUid :
           contacts[i].uid = Lower(contacts[i].uid)
             => results = Returned(<<contacts[i].uid>>)

\* 'uid=U4' has returned no record from a collection that holds U4
C27_WitnessUpperCase ==
  /\ Ran /\ AskedByUid # {}
  /\ term = <<"u", "i", "d", "=", "U", "4">>
  /\ results = Returned(<<>>)

\* every comma-separated item of the clause has one '='
IsItemsClause(clause) ==
  \A i \in DOMAIN Split(clause, ",") : CountEq(Split(clause, ",")[i]) = 1

\* the items of the clause that constrain: a recognized key and a value
Constraining(clause) ==
  {k \in DOMAIN Split(clause, ",") :
     /\ Strip(KeyOf(Split(clause, ",")[k])) \in RecognizedKeys
     /\ Strip(Split(Split(clause, ",")[k], "=")[2]) # <<>>}

\* some item of the clause has no value or a key that is not recognized
HasUnconstraining(clause) ==
  Constraining(clause) # DOMAIN Split(clause, ",")

\* the search clause returns the records that each of its constraining
\* items alone returns, all of them when it has none
SearchByConstraining ==
  LET items == Split(Lower(term), ",")
  IN  /\ Constraining(Lower(term)) = {} => results.kind = "list"
      /\ \A i \in DOMAIN contacts :
           IsReturned(contacts[i].uid, results)
             <=> \A k \in Constraining(Lower(term)) :
                   IsReturned(contacts[i].uid, Run(items[k]))

\* the exclude clause removes the records that some constraining item of
\* it alone removes, none when it has none
ExcludeByConstraining ==
  LET items == Split(ExcludeClause(term), ",")
  IN  /\ results.kind = "list"
      /\ \A i \in DOMAIN contacts :
           IsReturned(contacts[i].uid, results)
             <=> \A k \in Constraining(ExcludeClause(term)) :
                   IsReturned(contacts[i].uid, Run(<<"%">> \o items[k]))

C28_WitnessNoToken ==
  /\ Ran /\ term = <<"f", "o", "o", "=", "b", "a", "r">>
  /\ results = Returned(<<>>) /\ contacts # <<>>

\* the search command has printed its table for a result that is not empty
SearchShown ==
  /\ command = "search" /\ pc \in {"done", "exited"}
  /\ results.kind = "list" /\ results.ids # <<>>

\* the rows of the table are in the order of the display names
RowsByName ==
  \A i, j \in DOMAIN output.rows :
    i < j => StrLeq(ContactOf(contacts, output.rows[i]).display[1],
                    ContactOf(contacts, output.rows[j]).display[1])

\* C29: the table of the search command has one row for each id that
\* _perform_search returned, so as many rows as the N of its title
\* 'Search results (N)', and the rows are in the order of the display
\* names.
C29_RowPerResult ==
  SearchShown =>
    /\ Len(output.rows) = Len(results.ids)
    /\ Range(output.rows) = Range(results.ids)
    /\ output.count = Len(output.rows)
    /\ RowsByName

\* the table has one row for each returned id whose record has a display
\* name, in the order of the names, and N is the number of returned ids
C29_RowPerNamedResult ==
  SearchShown =>
    /\ Range(output.rows) =
         {uid \in Range(results.ids) :
            Truthy(ContactOf(contacts, uid).display)}
    /\ Len(output.rows) = Cardinality(Range(output.rows))
    /\ output.count = Len(results.ids)
    /\ RowsByName

\* the table is titled 'Search results (2)' and has one row: the other
\* record returned has no display name
C29_WitnessMissingRow ==
  /\ SearchShown
  /\ output.count = 2 /\ Len(output.rows) = 1
  /\ \E i \in DOMAIN contacts : contacts[i] = Contact4

\* the path of the file a record was read from
SourceOf(rec) == (CHOOSE f \in FilePool : f.contact = Some(rec)).path

\* C30: at every moment a command can observe while the watcher's thread
\* refreshes, every uid of Contacts.contacts has in Contacts.contact_files
\* the path of the file its record was loaded from.
C30_FilesConsistent ==
  \A i \in DOMAIN contacts :
    Get(contact_files, contacts[i].uid) = Some(SourceOf(contacts[i]))

\* C30 outside a refresh: the two dicts agree whenever _parse_files is not
\* between its last two statements
C30_FilesConsistentWhenLoaded ==
  pending = None => C30_FilesConsistent

\* delete has found the uid of an alias in Contacts.contacts and no file
\* for that uid in Contacts.contact_files, and has reported the error
C30_WitnessFailedDelete ==
  /\ command = "delete" /\ pc = "done"
  /\ uid_found # None
  /\ output.text = "ERROR"
  /\ \E i \in DOMAIN data_dir :
       /\ data_dir[i].contact # None
       /\ data_dir[i].contact[1].uid = uid_found[1]

====
